---- MODULE Spec2Model ----
(***************************************************************************)
(* Authentication and authorization core of Prompt House Premium           *)
(* (src/unified-python): users, cookie sessions, session tokens (JWT),     *)
(* API tokens, prompts and the Google OAuth bridge.                        *)
(*                                                                         *)
(* Every HTTP handler is one action.  The relational tables are the        *)
(* variables users, tokens and prompts; the cookie session of each browser *)
(* is session[c]; resp is the request just served and its response.        *)
(* Identifiers made with uuid4 are modelled as fresh counters, random      *)
(* secrets as fresh values.  Time is a clock counting hours; of the          *)
(* timestamp columns, expires_at and last_used_at are kept.                 *)
(***************************************************************************)
EXTENDS Integers, Sequences, FiniteSets, TLC

VARIABLES
    users,      \* table users: sequence of rows, the row's id is its index
    session,    \* session[c]: the cookie session of browser c
    jwts,       \* the payloads create_access_token has signed
    tokens,     \* table tokens: token id -> row
    tokenSeq,   \* number of token rows ever inserted (fresh ids and secrets)
    prompts,    \* table prompts: prompt id -> row
    promptSeq,  \* number of prompt rows ever inserted (fresh ids)
    stateSeq,   \* number of OAuth state values ever generated (fresh values)
    now,        \* datetime.utcnow(), in hours
    workers,    \* workers[w]: the request worker w is in the middle of
    articles,   \* table articles: its schema and its rows, article id -> row
    conn,       \* the call of connect_with_retry made at startup
    resp        \* the last request served and the response it got

vars == <<users, session, jwts, tokens, tokenSeq, prompts, promptSeq, stateSeq,
          now, workers, articles, conn, resp>>

(***************************************************************************)
(* Bounds of the model.                                                    *)
(***************************************************************************)
MaxTokens == 2
MaxUsage == 1
MaxPrompts == 2
MaxStates == 2
MaxTime == 25
MaxArticles == 2
MaxRetries == 6

\* JWT_EXPIRATION_HOURS of auth.py
JWT_EXPIRATION_HOURS == 24

\* A NULL timestamp column.
None == 0 - 1

\* The defaults of connect_with_retry(retries=5, delay=2000) and the cap of
\* its delay, in milliseconds.
DefaultRetries == 5
DefaultDelay == 2000
MaxDelay == 10000

\* A call of connect_with_retry: retries and delay0 are its arguments, i the
\* loop variable, delay the local delay, log the outcome of each attempt
\* made and waits the argument of each time.sleep, in order.
Call(retries, delay) ==
    [pc |-> "attempt", retries |-> retries, delay0 |-> delay, i |-> 0,
     delay |-> delay, log |-> <<>>, waits |-> <<>>]

\* The call made at startup has returned True at its first attempt.
Connected ==
    [Call(DefaultRetries, DefaultDelay) EXCEPT !.pc = "returned", !.log = <<"ok">>]

\* The articles table as create_tables makes it from the Article model: no
\* foreign key on prompt_id, no rows.  A row's prompt_id is 0 when NULL.
NoArticles == [schema |-> "orm", rows |-> <<>>]

\* Server processes sharing the database; each may be inside
\* verify_api_token while another is.  pc tells whether the worker has
\* loaded a token row, token and usage_count are the row's id and the
\* counter value it loaded, served counts the requests it has authenticated.
Workers == {"w1", "w2"}
Idle == [pc |-> "idle", token |-> 0, usage_count |-> 0, served |-> 0]

Browsers == {"c1", "c2"}
\* "mcp" is a programmatic client: it never logs in, so its session is empty.
Clients == Browsers \cup {"mcp"}
Emails == {"a@x.com", "isky999@gmail.com"}
Passwords == {"Passw0rd1", "Passw0rd2"}

(***************************************************************************)
(* Requests.  A request comes from a browser (its cookie session) and may  *)
(* carry an Authorization header and an X-API-Token header.  A header      *)
(* value is absent, a session token (JWT) or an opaque string.             *)
(***************************************************************************)
NoHeader == [kind |-> "none", sub |-> 0, exp |-> 0, ok |-> FALSE, value |-> 0]
BearerOpaque(v) == [kind |-> "opaque", sub |-> 0, exp |-> 0, ok |-> FALSE, value |-> v]

\* A bearer session token with the payload (sub, exp); ok tells whether its
\* signature is the one JWT_SECRET gives for that payload.
Jwt(sub, exp, ok) == [kind |-> "jwt", sub |-> sub, exp |-> exp, ok |-> ok, value |-> 0]

\* create_access_token: the payload gets exp = utcnow() + 24 hours.
create_access_token(sub) == [sub |-> sub, exp |-> now + JWT_EXPIRATION_HOURS]

\* The token create_access_token returns now for sub (ok), or that token with
\* a signature that does not verify.
BearerJwt(sub, ok) == Jwt(sub, create_access_token(sub).exp, ok)

\* data is the JSON body, <<>> when there is none.
Request(c, h, x) ==
    [client |-> c, authorization |-> h, x_api_token |-> x, data |-> <<>>]
SessionRequest(c) == Request(c, NoHeader, 0)
WithData(request, data) == [request EXCEPT !.data = data]

(***************************************************************************)
(* auth.py                                                                 *)
(***************************************************************************)
\* secrets.token_urlsafe(32): the n-th secret ever generated, never repeated.
generate_api_token(n) == 100 + n

\* sha256 hex digest: injective, and never the value it was computed from.
hash_token(token) == 0 - token

\* The signature of token verifies: only payloads this server signed have a
\* signature made with JWT_SECRET.
SignatureValid(token) ==
    token.kind = "jwt" /\ token.ok /\ [sub |-> token.sub, exp |-> token.exp] \in jwts

\* The exp claim has passed.
ExpiredMutant(token) == FALSE

Expired(token) == token.exp < now

\* jwt.decode with JWT_SECRET: the payload's subject, 0 when the signature or
\* the expiry check fails.
verify_token(token) ==
    IF SignatureValid(token) /\ ~Expired(token) THEN token.sub ELSE 0

\* db.query(User).filter(User.id == user_id).first(): the id, 0 when no row.
UserById(user_id) == IF user_id \in DOMAIN users THEN user_id ELSE 0

get_current_userMutant(request) ==
    LET user_id == session[request.client].user_id
        payload == verify_token(request.authorization)
    IN  IF payload # 0 /\ UserById(payload) # 0 THEN UserById(payload)
        ELSE IF user_id # 0 THEN UserById(user_id) ELSE 0

get_current_user(request) ==
    LET user_id == session[request.client].user_id
        bySession == IF user_id # 0 THEN UserById(user_id) ELSE 0
        payload == verify_token(request.authorization)
        byJwt == IF request.authorization.kind # "none" /\ payload # 0
                 THEN UserById(payload) ELSE 0
    IN  IF bySession # 0 THEN bySession ELSE byJwt

\* require_auth: the principal, 0 standing for the HTTPException(401).
require_authMutant(request) ==
    IF get_current_user(request) # 0 THEN get_current_user(request)
    ELSE IF users # <<>> THEN 1 ELSE 0

require_auth(request) == get_current_user(request)

\* The rows verify_api_token's query matches: same hash, active.
ActiveTokenIdsMutant(token) ==
    {id \in DOMAIN tokens : tokens[id].token_hash = hash_token(token)}

ActiveTokenIds(token) ==
    {id \in DOMAIN tokens :
        tokens[id].token_hash = hash_token(token) /\ tokens[id].is_active}

\* verify_api_token: [user, tokens]: the owning user (0 for None) and the
\* tokens table after the usage bookkeeping.
verify_api_token(token) ==
    IF token = 0 \/ ActiveTokenIds(token) = {}
    THEN [user |-> 0, tokens |-> tokens]
    ELSE LET id == CHOOSE i \in ActiveTokenIds(token) : TRUE
         IN  [user |-> UserById(tokens[id].user_id),
              tokens |-> [tokens EXCEPT ![id].usage_count = @ + 1,
                                        ![id].last_used_at = now]]

\* The string get_current_user_or_token hands to verify_api_token:
\* X-API-Token, else the Authorization header without its "Bearer " prefix.
ApiTokenOf(request) ==
    IF request.x_api_token # 0 THEN request.x_api_token
    ELSE IF request.authorization.kind = "opaque" THEN request.authorization.value
    ELSE IF request.authorization.kind = "jwt" THEN 0 - 1
    ELSE 0

get_current_user_or_token(request) ==
    LET user == get_current_user(request)
    IN  IF user # 0 THEN [user |-> user, tokens |-> tokens]
        ELSE IF ApiTokenOf(request) # 0 THEN verify_api_token(ApiTokenOf(request))
        ELSE [user |-> 0, tokens |-> tokens]

(***************************************************************************)
(* email_auth.py                                                           *)
(***************************************************************************)
\* bcrypt.hashpw with a fresh salt: a value that is not the password.
hash_password(password) == [alg |-> "bcrypt", of |-> password]

\* bcrypt.checkpw
verify_passwordMutant(password, hashed_password) == TRUE

verify_password(password, hashed_password) == hashed_password.of = password

NoHash == [alg |-> "none", of |-> ""]

\* db.query(User).filter(User.email == email).first(): the id, 0 for None.
UserByEmailMutant(email) == 0

UserByEmail(email) ==
    IF \E i \in DOMAIN users : users[i].email = email
    THEN CHOOSE i \in DOMAIN users : users[i].email = email
    ELSE 0

\* What resp records of one exchange: the route, the request, the route's path
\* parameter (arg), the principal the handler resolved (user, 0 for none),
\* the status code and the response body.
Response(route, request, status, user, arg, body) ==
    [route |-> route, request |-> request, status |-> status, user |-> user,
     arg |-> arg, body |-> body]

NoBody == [detail |-> "none"]
Detail(d) == [detail |-> d]

\* The body of HTTPException(500, detail=f"... failed: {str(e)}"): the fixed
\* text and the text of the exception.
FailedWith(detail, e) == [detail |-> detail, exception |-> e]

\* POST /api/auth/register
register_user(c, email, password) ==
    /\ IF UserByEmail(email) # 0
       THEN /\ resp' = Response("register", SessionRequest(c), 400, 0, email,
                                Detail("User with this email already exists"))
            /\ UNCHANGED <<users, session, jwts, stateSeq, now, conn, articles, workers>>
       ELSE LET id == Len(users) + 1
            IN  /\ users' = Append(users,
                       [email |-> email, password_hash |-> hash_password(password),
                        google_id |-> "none", auth_provider |-> "local",
                        is_active |-> TRUE, is_admin |-> FALSE])
                /\ jwts' = jwts \cup {create_access_token(id)}
                /\ session' = [session EXCEPT ![c].user_id = id]
                /\ resp' = Response("register", SessionRequest(c), 200, id, email,
                                    [user |-> id, token |-> BearerJwt(id, TRUE)])
    /\ UNCHANGED <<tokens, tokenSeq, prompts, promptSeq, stateSeq, now, conn, articles, workers>>

\* authenticate_user: the id of the user the credentials belong to, 0 for
\* None.  The query keeps local, active accounts only.
LocalActiveMutant(i) == TRUE

LocalActive(i) == users[i].auth_provider = "local" /\ users[i].is_active

authenticate_user(email, password) ==
    LET rows == {i \in DOMAIN users : users[i].email = email /\ LocalActive(i)}
        user == IF rows = {} THEN 0 ELSE CHOOSE i \in rows : TRUE
    IN  IF user = 0 \/ users[user].password_hash = NoHash THEN 0
        ELSE IF ~verify_password(password, users[user].password_hash) THEN 0
        ELSE user

\* POST /api/auth/login
login_user(c, user_data) ==
    LET request == WithData(SessionRequest(c), user_data)
        user == authenticate_user(user_data.email, user_data.password)
    IN  /\ IF user = 0
           THEN /\ resp' = Response("login", request, 401, 0, 0,
                                    Detail("Invalid email or password"))
                /\ UNCHANGED <<session, jwts>>
           ELSE /\ jwts' = jwts \cup {create_access_token(user)}
                /\ session' = [session EXCEPT ![c].user_id = user]
                /\ resp' = Response("login", request, 200, user, 0,
                                    [user |-> user, token |-> BearerJwt(user, TRUE)])
        /\ UNCHANGED <<users, tokens, tokenSeq, prompts, promptSeq, stateSeq, now, conn, articles, workers>>

\* current_user.auth_provider != 'local' or not current_user.password_hash
NotLocalAccountMutant(user) == users[user].password_hash = NoHash

NotLocalAccount(user) ==
    users[user].auth_provider # "local" \/ users[user].password_hash = NoHash

\* POST /api/auth/change-password.  The principal comes from
\* Depends(get_current_user), which is None for an anonymous request: the
\* first attribute access then raises and the handler answers 500.
change_password(request, password_data) ==
    LET current_user == get_current_user(request)
        answer(status, detail) ==
            /\ resp' = Response("change_password", WithData(request, password_data),
                                status, current_user, 0, Detail(detail))
            /\ UNCHANGED users
    IN  /\ UNCHANGED <<session, jwts, tokens, tokenSeq, prompts, promptSeq, stateSeq, now, conn, articles, workers>>
        /\ IF current_user = 0
           THEN answer(500, "Password change failed")
           ELSE IF NotLocalAccount(current_user)
           THEN answer(400, "Password change not available for OAuth users")
           ELSE IF ~verify_password(password_data.current_password,
                                    users[current_user].password_hash)
           THEN answer(401, "Current password is incorrect")
           ELSE /\ users' = [users EXCEPT ![current_user].password_hash =
                                 hash_password(password_data.new_password)]
                /\ resp' = Response("change_password", WithData(request, password_data),
                                    200, current_user, 0,
                                    Detail("Password changed successfully"))

\* GET /api/auth/logout: request.session.clear()
logout(c) ==
    /\ session' = [session EXCEPT ![c] = [user_id |-> 0, oauth_state |-> 0]]
    /\ resp' = Response("logout", SessionRequest(c), 200, 0, 0, NoBody)
    /\ UNCHANGED <<users, jwts, stateSeq, now, conn, articles, workers, tokens, tokenSeq, prompts, promptSeq>>

(***************************************************************************)
(* main.py: token management                                               *)
(***************************************************************************)
Unauthenticated(route, request, arg) ==
    /\ resp' = Response(route, request, 401, 0, arg, Detail("Authentication required"))
    /\ UNCHANGED <<users, session, jwts, stateSeq, now, conn, articles, workers, tokens, tokenSeq, prompts, promptSeq>>

\* The rows of db.query(Token).filter(Token.user_id == current_user.id).all()
TokensOfMutant(user) == DOMAIN tokens

TokensOf(user) == {id \in DOMAIN tokens : tokens[id].user_id = user}

TokenListItemMutant(id) ==
    [id |-> id, name |-> tokens[id].name, description |-> tokens[id].description,
     is_active |-> tokens[id].is_active, usage_count |-> tokens[id].usage_count,
     last_used_at |-> tokens[id].last_used_at, expires_at |-> tokens[id].expires_at,
     permissions |-> tokens[id].permissions, owner_user_id |-> tokens[id].user_id,
     token_hash |-> tokens[id].token_hash]

\* One entry of the "tokens" list of GET /api/tokens.
TokenListItem(id) ==
    [id |-> id, name |-> tokens[id].name, description |-> tokens[id].description,
     is_active |-> tokens[id].is_active, usage_count |-> tokens[id].usage_count,
     last_used_at |-> tokens[id].last_used_at, expires_at |-> tokens[id].expires_at,
     permissions |-> tokens[id].permissions, owner_user_id |-> tokens[id].user_id]

\* GET /api/tokens
get_tokens(request) ==
    LET current_user == require_auth(request)
    IN  IF current_user = 0 THEN Unauthenticated("get_tokens", request, 0)
        ELSE /\ resp' = Response("get_tokens", request, 200, current_user, 0,
                    [tokens |-> {TokenListItem(id) : id \in TokensOf(current_user)},
                     user_id |-> current_user,
                     count |-> Cardinality(TokensOf(current_user))])
             /\ UNCHANGED <<users, session, jwts, stateSeq, now, conn, articles, workers, tokens, tokenSeq, prompts, promptSeq>>

\* POST /api/tokens
create_token(request, data) ==
    LET current_user == require_auth(request)
        id == tokenSeq + 1
        raw_token == generate_api_token(id)
    IN  IF current_user = 0 THEN Unauthenticated("create_token", request, 0)
        ELSE /\ tokenSeq < MaxTokens
             /\ tokenSeq' = id
             /\ tokens' = [i \in DOMAIN tokens \cup {id} |->
                    IF i = id
                    THEN [name |-> IF "name" \in DOMAIN data THEN data.name ELSE "MCP Token",
                          description |-> IF "description" \in DOMAIN data
                                          THEN data.description ELSE "",
                          token_hash |-> hash_token(raw_token),
                          user_id |-> current_user,
                          is_active |-> TRUE,
                          usage_count |-> 0,
                          last_used_at |-> None,
                          expires_at |-> None,
                          permissions |-> IF "permissions" \in DOMAIN data
                                          THEN data.permissions ELSE {"read", "write"}]
                    ELSE tokens[i]]
             /\ resp' = Response("create_token", request, 200, current_user, id,
                    [id |-> id, name |-> tokens'[id].name,
                     description |-> tokens'[id].description,
                     token |-> raw_token,
                     permissions |-> tokens'[id].permissions,
                     PROMPTHOUSE_ACCESS_TOKEN |-> raw_token])
             /\ UNCHANGED <<users, session, jwts, stateSeq, now, conn, articles, workers, prompts, promptSeq>>

\* The row of db.query(Token).filter(Token.id == token_id,
\* Token.user_id == current_user.id).first(), 0 when there is none.
OwnedTokenMutant(token_id, user) == IF token_id \in DOMAIN tokens THEN token_id ELSE 0

OwnedToken(token_id, user) ==
    IF token_id \in DOMAIN tokens /\ tokens[token_id].user_id = user
    THEN token_id ELSE 0

TokenNotFound(route, request, user, token_id) ==
    /\ resp' = Response(route, request, 404, user, token_id, Detail("Token not found"))
    /\ UNCHANGED <<users, session, jwts, stateSeq, now, conn, articles, workers, tokens, tokenSeq, prompts, promptSeq>>

\* The additional check after the fetch: 403 when the row is another user's.
AccessDenied(route, request, user, token_id) ==
    /\ resp' = Response(route, request, 403, user, token_id, Detail("Access denied"))
    /\ UNCHANGED <<users, session, jwts, stateSeq, now, conn, articles, workers, tokens, tokenSeq, prompts, promptSeq>>

\* PUT /api/tokens/{token_id}
update_token(request, token_id, data) ==
    LET current_user == require_auth(request)
        token == OwnedToken(token_id, current_user)
    IN  IF current_user = 0 THEN Unauthenticated("update_token", request, token_id)
        ELSE IF token = 0 THEN TokenNotFound("update_token", request, current_user, token_id)
        ELSE IF tokens[token].user_id # current_user
             THEN AccessDenied("update_token", request, current_user, token_id)
        ELSE /\ tokens' = [tokens EXCEPT ![token] =
                    [@ EXCEPT
                       !.name = IF "name" \in DOMAIN data THEN data.name ELSE @,
                       !.description = IF "description" \in DOMAIN data
                                       THEN data.description ELSE @,
                       !.is_active = IF "is_active" \in DOMAIN data
                                     THEN data.is_active ELSE @,
                       !.permissions = IF "permissions" \in DOMAIN data
                                       THEN data.permissions ELSE @]]
             /\ resp' = Response("update_token", request, 200, current_user, token_id,
                    [id |-> token, name |-> tokens'[token].name,
                     description |-> tokens'[token].description,
                     is_active |-> tokens'[token].is_active,
                     permissions |-> tokens'[token].permissions,
                     owner_user_id |-> tokens'[token].user_id])
             /\ UNCHANGED <<users, session, jwts, stateSeq, now, conn, articles, workers, tokenSeq, prompts, promptSeq>>

\* DELETE /api/tokens/{token_id}
delete_token(request, token_id) ==
    LET current_user == require_auth(request)
        token == OwnedToken(token_id, current_user)
    IN  IF current_user = 0 THEN Unauthenticated("delete_token", request, token_id)
        ELSE IF token = 0 THEN TokenNotFound("delete_token", request, current_user, token_id)
        ELSE IF tokens[token].user_id # current_user
             THEN AccessDenied("delete_token", request, current_user, token_id)
        ELSE /\ tokens' = [i \in DOMAIN tokens \ {token} |-> tokens[i]]
             /\ resp' = Response("delete_token", request, 200, current_user, token_id,
                    [message |-> "Token deleted successfully", token_id |-> token_id])
             /\ UNCHANGED <<users, session, jwts, stateSeq, now, conn, articles, workers, tokenSeq, prompts, promptSeq>>

\* GET /api/tokens/{token_id}/mcp-config.  The placeholder
\* "YOUR_API_TOKEN_HERE" is the value 0, which is no secret and no hash.
get_mcp_config(request, token_id) ==
    LET current_user == require_auth(request)
        token == OwnedToken(token_id, current_user)
    IN  IF current_user = 0 THEN Unauthenticated("get_mcp_config", request, token_id)
        ELSE IF token = 0 THEN TokenNotFound("get_mcp_config", request, current_user, token_id)
        ELSE IF tokens[token].user_id # current_user
             THEN AccessDenied("get_mcp_config", request, current_user, token_id)
        ELSE /\ resp' = Response("get_mcp_config", request, 200, current_user, token_id,
                    [token_name |-> tokens[token].name, token_id |-> token,
                     PROMPTHOUSE_ACCESS_TOKEN |-> 0,
                     owner_user_id |-> tokens[token].user_id])
             /\ UNCHANGED <<users, session, jwts, stateSeq, now, conn, articles, workers, tokens, tokenSeq, prompts, promptSeq>>

\* GET /api/tokens/debug/ownership
debug_token_ownership(request) ==
    LET current_user == require_auth(request)
    IN  IF current_user = 0 THEN Unauthenticated("debug_token_ownership", request, 0)
        ELSE /\ resp' = Response("debug_token_ownership", request, 200, current_user, 0,
                    [current_user_id |-> current_user,
                     current_user_email |-> users[current_user].email,
                     user_tokens_count |-> Cardinality(TokensOf(current_user)),
                     total_tokens_in_system |-> Cardinality(DOMAIN tokens),
                     user_tokens |-> {[id |-> id, name |-> tokens[id].name,
                                       user_id |-> tokens[id].user_id] :
                                      id \in TokensOf(current_user)}])
             /\ UNCHANGED <<users, session, jwts, stateSeq, now, conn, articles, workers, tokens, tokenSeq, prompts, promptSeq>>

\* GET /api/user/profile, a route that resolves its principal with
\* get_current_user_or_token.  The usage counter is capped at MaxUsage.
get_user_profile(request) ==
    LET found == get_current_user_or_token(request)
    IN  /\ \A id \in DOMAIN found.tokens : found.tokens[id].usage_count <= MaxUsage
        /\ tokens' = found.tokens
        /\ IF found.user = 0
           THEN resp' = Response("get_user_profile", request, 401, 0, 0,
                                 Detail("Not authenticated"))
           ELSE resp' = Response("get_user_profile", request, 200, found.user, 0,
                    [id |-> found.user, email |-> users[found.user].email,
                     auth_provider |-> users[found.user].auth_provider,
                     is_admin |-> users[found.user].is_admin])
        /\ UNCHANGED <<users, session, jwts, stateSeq, now, conn, articles, workers, tokenSeq, prompts, promptSeq>>

(***************************************************************************)
(* main.py: prompts.  A row keeps title, content, is_public and user_id;   *)
(* content stands for the free-text columns (description, content,         *)
(* category, tags), which the handlers treat alike.                        *)
(***************************************************************************)
\* .limit(50) of get_prompts and mcp_get_prompts
ListLimit == 50

Lower(ch) == IF ch = "A" THEN "a" ELSE IF ch = "B" THEN "b" ELSE ch
LowerAll(str) == [i \in 1..Len(str) |-> Lower(str[i])]

\* Prompt.title.ilike(f"%{prompt_name}%"): the title contains the name, case
\* ignored.  Strings are sequences of characters.
ILike(title, prompt_name) ==
    \E i \in 1..(Len(title) + 1) :
        /\ i + Len(prompt_name) - 1 <= Len(title)
        /\ SubSeq(LowerAll(title), i, i + Len(prompt_name) - 1) = LowerAll(prompt_name)

\* (Prompt.is_public == True) | (Prompt.user_id == current_user.id)
AccessibleMutant(user, id) == TRUE

Accessible(user, id) == prompts[id].is_public \/ prompts[id].user_id = user

AccessiblePrompts(user) == {id \in DOMAIN prompts : Accessible(user, id)}

\* The first k rows of S in creation order, newest first when desc.
RECURSIVE FirstRows(_, _, _)
FirstRows(S, k, desc) ==
    IF S = {} \/ k = 0 THEN {}
    ELSE LET id == IF desc THEN CHOOSE x \in S : \A y \in S : y <= x
                   ELSE CHOOSE x \in S : \A y \in S : x <= y
         IN  {id} \cup FirstRows(S \ {id}, k - 1, desc)

PromptUnauthenticated(route, request, arg, detail) ==
    /\ resp' = Response(route, request, 401, 0, arg, Detail(detail))
    /\ UNCHANGED <<users, session, jwts, stateSeq, now, conn, articles, workers, prompts, promptSeq>>

\* GET /api/prompts, sorted by created_at
get_prompts(request, sortOrder) ==
    LET found == get_current_user_or_token(request)
        current_user == found.user
        rows == FirstRows(AccessiblePrompts(current_user), ListLimit, sortOrder = "desc")
    IN  /\ tokens' = found.tokens
        /\ tokenSeq' = tokenSeq
        /\ IF current_user = 0
           THEN PromptUnauthenticated("get_prompts", request, 0, "Authentication required")
           ELSE /\ resp' = Response("get_prompts", request, 200, current_user, 0,
                       [prompts |-> {[id |-> id, title |-> prompts[id].title,
                                      content |-> prompts[id].content,
                                      is_public |-> prompts[id].is_public,
                                      is_owner |-> prompts[id].user_id = current_user] :
                                     id \in rows},
                        total |-> Cardinality(rows)])
                /\ UNCHANGED <<users, session, jwts, stateSeq, now, conn, articles, workers, prompts, promptSeq>>

\* POST /api/prompts: no principal is resolved, the owner is read from the body.
create_prompt(request, data) ==
    LET id == promptSeq + 1
    IN  /\ promptSeq < MaxPrompts
        /\ promptSeq' = id
        /\ prompts' = [i \in DOMAIN prompts \cup {id} |->
               IF i = id
               THEN [title |-> IF "title" \in DOMAIN data THEN data.title ELSE <<"U">>,
                     content |-> IF "content" \in DOMAIN data THEN data.content ELSE "",
                     user_id |-> IF "user_id" \in DOMAIN data THEN data.user_id ELSE 0,
                     is_public |-> IF "is_public" \in DOMAIN data
                                   THEN data.is_public ELSE FALSE]
               ELSE prompts[i]]
        /\ resp' = Response("create_prompt", WithData(request, data), 200, 0, id,
                            [id |-> id, title |-> prompts'[id].title,
                             content |-> prompts'[id].content])
        /\ UNCHANGED <<users, session, jwts, stateSeq, now, conn, articles, workers, tokens, tokenSeq>>

\* GET /api/prompts/{prompt_id}
get_prompt(request, prompt_id) ==
    LET found == get_current_user_or_token(request)
        current_user == found.user
    IN  /\ tokens' = found.tokens
        /\ tokenSeq' = tokenSeq
        /\ IF current_user = 0
           THEN PromptUnauthenticated("get_prompt", request, prompt_id,
                                      "Authentication required")
           ELSE /\ IF prompt_id \in DOMAIN prompts /\ Accessible(current_user, prompt_id)
                   THEN resp' = Response("get_prompt", request, 200, current_user, prompt_id,
                            [id |-> prompt_id, title |-> prompts[prompt_id].title,
                             content |-> prompts[prompt_id].content,
                             is_public |-> prompts[prompt_id].is_public,
                             is_owner |-> prompts[prompt_id].user_id = current_user])
                   ELSE resp' = Response("get_prompt", request, 404, current_user, prompt_id,
                            Detail("Prompt not found or access denied"))
                /\ UNCHANGED <<users, session, jwts, stateSeq, now, conn, articles, workers, prompts, promptSeq>>

\* is_owner or is_admin_updating_public / is_admin_deleting_public
MayMutateMutant(user, id) == prompts[id].user_id = user \/ users[user].is_admin

MayMutate(user, id) ==
    prompts[id].user_id = user \/ (users[user].is_admin /\ prompts[id].is_public)

Forbidden(route, request, user, id) ==
    /\ resp' = Response(route, request, 403, user, id,
           Detail(IF prompts[id].is_public
                  THEN "Only admins can change public prompts that are not their own"
                  ELSE "You can only change your own prompts"))
    /\ UNCHANGED <<users, session, jwts, stateSeq, now, conn, articles, workers, prompts, promptSeq>>

PromptNotFound(route, request, user, id) ==
    /\ resp' = Response(route, request, 404, user, id, Detail("Prompt not found"))
    /\ UNCHANGED <<users, session, jwts, stateSeq, now, conn, articles, workers, prompts, promptSeq>>

\* The row after update_prompt has copied the fields present in the body.
UpdatedPrompt(row, data) ==
    [row EXCEPT
       !.title = IF "title" \in DOMAIN data THEN data.title ELSE @,
       !.content = IF "content" \in DOMAIN data THEN data.content ELSE @,
       !.is_public = IF "is_public" \in DOMAIN data THEN data.is_public ELSE @]

\* PUT /api/prompts/{prompt_id}
update_prompt(request, prompt_id, data) ==
    LET found == get_current_user_or_token(request)
        current_user == found.user
        req == WithData(request, data)
    IN  /\ tokens' = found.tokens
        /\ tokenSeq' = tokenSeq
        /\ IF current_user = 0
           THEN PromptUnauthenticated("update_prompt", req, prompt_id,
                                      "Authentication required")
           ELSE IF prompt_id \notin DOMAIN prompts
           THEN PromptNotFound("update_prompt", req, current_user, prompt_id)
           ELSE IF ~MayMutate(current_user, prompt_id)
           THEN Forbidden("update_prompt", req, current_user, prompt_id)
           ELSE /\ prompts' = [prompts EXCEPT ![prompt_id] = UpdatedPrompt(@, data)]
                /\ resp' = Response("update_prompt", req, 200, current_user, prompt_id,
                       [id |-> prompt_id, title |-> prompts'[prompt_id].title,
                        content |-> prompts'[prompt_id].content,
                        is_public |-> prompts'[prompt_id].is_public])
                /\ UNCHANGED <<users, session, jwts, stateSeq, now, conn, articles, workers, promptSeq>>

\* What the database does to the articles table when the row of prompt
\* prompt_id is deleted.  delete_prompt itself issues no statement on
\* articles.  The table made by migrate_articles_table has FOREIGN KEY
\* (prompt_id) REFERENCES prompts (id) ON DELETE SET NULL; the table made by
\* create_tables from the Article model has a plain prompt_id column.
OnDeletePrompt(prompt_id) ==
    IF articles.schema = "migrated"
    THEN [articles EXCEPT !.rows =
             [a \in DOMAIN @ |->
                 IF @[a].prompt_id = prompt_id THEN [@[a] EXCEPT !.prompt_id = 0]
                 ELSE @[a]]]
    ELSE articles

\* DELETE /api/prompts/{prompt_id}
delete_prompt(request, prompt_id) ==
    LET found == get_current_user_or_token(request)
        current_user == found.user
    IN  /\ tokens' = found.tokens
        /\ tokenSeq' = tokenSeq
        /\ IF current_user = 0
           THEN PromptUnauthenticated("delete_prompt", request, prompt_id,
                                      "Authentication required")
           ELSE IF prompt_id \notin DOMAIN prompts
           THEN PromptNotFound("delete_prompt", request, current_user, prompt_id)
           ELSE IF ~MayMutate(current_user, prompt_id)
           THEN Forbidden("delete_prompt", request, current_user, prompt_id)
           ELSE /\ prompts' = [i \in DOMAIN prompts \ {prompt_id} |-> prompts[i]]
                /\ articles' = OnDeletePrompt(prompt_id)
                /\ resp' = Response("delete_prompt", request, 200, current_user, prompt_id,
                       [message |-> "Prompt deleted successfully"])
                /\ UNCHANGED <<users, session, jwts, stateSeq, now, conn, workers, promptSeq>>

\* GET /api/mcp/prompts.  An entry carries the prompt's name only; row is the
\* table row it was built from.
mcp_get_prompts(request) ==
    LET found == get_current_user_or_token(request)
        current_user == found.user
        rows == FirstRows(AccessiblePrompts(current_user), ListLimit, FALSE)
    IN  /\ tokens' = found.tokens
        /\ tokenSeq' = tokenSeq
        /\ IF current_user = 0
           THEN PromptUnauthenticated("mcp_get_prompts", request, 0, "API token required")
           ELSE /\ resp' = Response("mcp_get_prompts", request, 200, current_user, 0,
                       [prompts |-> {[name |-> prompts[id].title, row |-> id] : id \in rows}])
                /\ UNCHANGED <<users, session, jwts, stateSeq, now, conn, articles, workers, prompts, promptSeq>>

\* POST /api/mcp/prompts/{prompt_name}: .first() of the accessible rows whose
\* title contains the name; the query has no ORDER BY, so any of them.
mcp_get_prompt(request, prompt_name) ==
    LET found == get_current_user_or_token(request)
        current_user == found.user
        rows == {id \in AccessiblePrompts(current_user) :
                    ILike(prompts[id].title, prompt_name)}
    IN  /\ tokens' = found.tokens
        /\ tokenSeq' = tokenSeq
        /\ IF current_user = 0
           THEN PromptUnauthenticated("mcp_get_prompt", request, prompt_name,
                                      "API token required")
           ELSE /\ IF rows = {}
                   THEN resp' = Response("mcp_get_prompt", request, 404, current_user,
                                         prompt_name, Detail("Prompt not found"))
                   ELSE \E id \in rows :
                            resp' = Response("mcp_get_prompt", request, 200, current_user,
                                prompt_name, [text |-> prompts[id].content, row |-> id])
                /\ UNCHANGED <<users, session, jwts, stateSeq, now, conn, articles, workers, prompts, promptSeq>>

\* POST /api/admin/set-admin-user: the fixed address isky999@gmail.com
set_admin_user_endpoint ==
    LET existing_user == UserByEmail("isky999@gmail.com")
    IN  /\ IF existing_user = 0
           THEN /\ resp' = Response("set_admin_user", SessionRequest("mcp"), 500, 0, 0,
                                    FailedWith("Failed to set admin user",
                                               "404: User with email not found"))
                /\ users' = users
           ELSE /\ users' = [users EXCEPT ![existing_user].is_admin = TRUE]
                /\ resp' = Response("set_admin_user", SessionRequest("mcp"), 200, 0, 0,
                                    [user |-> existing_user, is_admin |-> TRUE])
        /\ UNCHANGED <<session, jwts, stateSeq, now, conn, articles, workers, tokens, tokenSeq, prompts, promptSeq>>

(***************************************************************************)
(* main.py: articles                                                       *)
(***************************************************************************)
\* POST /api/articles.  data.prompt_id is 0 when the body names no prompt.
\* Without an articles table the INSERT fails and the handler answers 500.
create_article(request, data) ==
    LET found == get_current_user_or_token(request)
        current_user == found.user
        req == WithData(request, data)
        id == Len(articles.rows) + 1
    IN  /\ tokens' = found.tokens
        /\ tokenSeq' = tokenSeq
        /\ UNCHANGED <<users, session, jwts, stateSeq, now, conn, workers, prompts, promptSeq>>
        /\ IF current_user = 0
           THEN /\ resp' = Response("create_article", req, 401, 0, 0,
                                    Detail("Not authenticated"))
                /\ UNCHANGED articles
           ELSE IF /\ data.prompt_id # 0
                   /\ ~(/\ data.prompt_id \in DOMAIN prompts
                        /\ prompts[data.prompt_id].user_id = current_user)
           THEN /\ resp' = Response("create_article", req, 400, current_user, 0,
                              Detail("Prompt not found or does not belong to user"))
                /\ UNCHANGED articles
           ELSE IF articles.schema = "absent"
           THEN /\ resp' = Response("create_article", req, 500, current_user, 0,
                                    Detail("Failed to create article"))
                /\ UNCHANGED articles
           ELSE /\ Len(articles.rows) < MaxArticles
                /\ articles' = [articles EXCEPT !.rows =
                       Append(@, [title |-> data.title, prompt_id |-> data.prompt_id,
                                  user_id |-> current_user])]
                /\ resp' = Response("create_article", req, 200, current_user, id,
                                    [id |-> id, title |-> data.title,
                                     prompt_id |-> data.prompt_id])

\* POST /api/migrate-articles/add-articles-table: creates the table, with
\* its foreign keys, when information_schema does not list it.
migrate_articles_table ==
    /\ IF articles.schema # "absent"
       THEN /\ resp' = Response("migrate_articles_table", SessionRequest("mcp"), 200, 0, 0,
                                [message |-> "Articles table already exists"])
            /\ UNCHANGED articles
       ELSE /\ articles' = [schema |-> "migrated", rows |-> <<>>]
            /\ resp' = Response("migrate_articles_table", SessionRequest("mcp"), 200, 0, 0,
                           [message |-> "Articles table migration completed successfully"])
    /\ UNCHANGED <<users, session, jwts, tokens, tokenSeq, prompts, promptSeq, stateSeq,
                   now, conn, workers>>

(***************************************************************************)
(* main.py: bulk import.  An item is one element of the prompts list, one  *)
(* CSV row or one Markdown section.  well_formed is FALSE for an item the  *)
(* loop body raises on: an element that is not an object, a CSV row that   *)
(* is shorter than the header.  commit is what db.commit() ends in.        *)
(***************************************************************************)
Raises(item) == ~item.well_formed

\* if not row.get('title') or not row.get('content'): continue
Skipped(item) == item.title = <<>> \/ item.content = ""

\* The Prompt row the loop body builds from an item.
ImportedPrompt(item, owner) ==
    [title |-> item.title, content |-> item.content, user_id |-> owner,
     is_public |-> item.is_public]

\* The rows db.add() has put into the session when the loop ends or raises.
\* skips is FALSE for the JSON import, whose loop has no continue.
RECURSIVE Added(_, _, _)
Added(items, owner, skips) ==
    IF items = <<>> \/ Raises(Head(items)) THEN <<>>
    ELSE IF skips /\ Skipped(Head(items)) THEN Added(Tail(items), owner, skips)
    ELSE <<ImportedPrompt(Head(items), owner)>> \o Added(Tail(items), owner, skips)

\* db.rollback(): the rows the session holds are discarded.
RollbackMutant(pending) == pending

Rollback(pending) == <<>>

\* The prompts table after the rows were inserted under fresh ids.
Committed(rows) ==
    [i \in DOMAIN prompts \cup (promptSeq + 1)..(promptSeq + Len(rows)) |->
        IF i \in DOMAIN prompts THEN prompts[i] ELSE rows[i - promptSeq]]

\* The loop over the items, the single commit and the except branch that
\* the five import handlers share.  leaks: the 500 carries str(e).
ImportAll(route, request, current_user, items, skips, commit, detail, leaks) ==
    LET pending == Added(items, current_user, skips)
        raised == \E i \in DOMAIN items : Raises(items[i])
        failed == raised \/ commit # "ok"
        stored == IF failed THEN Rollback(pending) ELSE pending
        e == IF raised THEN "AttributeError" ELSE "OperationalError"
    IN  /\ promptSeq + Len(pending) <= MaxPrompts
        /\ prompts' = Committed(stored)
        /\ promptSeq' = promptSeq + Len(stored)
        /\ resp' = IF failed
                   THEN Response(route, request, 500, current_user, 0,
                                 IF leaks THEN FailedWith(detail, e) ELSE Detail(detail))
                   ELSE Response(route, request, 200, current_user, 0,
                                 [message |-> "Successfully imported",
                                  imported |-> Len(pending)])

\* POST /api/import/json.  The body was validated as BulkImportRequest.
import_prompts_json(request, data, commit) ==
    LET current_user == require_auth(request)
        req == WithData(request, data)
    IN  IF current_user = 0 THEN Unauthenticated("import_prompts_json", req, 0)
        ELSE /\ ImportAll("import_prompts_json", req, current_user, data.prompts,
                          FALSE, commit, "Import failed", TRUE)
             /\ UNCHANGED <<users, session, jwts, stateSeq, now, conn, articles, workers, tokens, tokenSeq>>

\* POST /api/import/csv.  data is the form; the HTTPException(400) for an
\* empty csv_content is raised inside the try block, whose only handler is
\* except Exception.
import_prompts_csv(request, data, commit) ==
    LET current_user == require_auth(request)
        req == WithData(request, data)
    IN  IF current_user = 0 THEN Unauthenticated("import_prompts_csv", req, 0)
        ELSE /\ IF "csv_content" \notin DOMAIN data \/ data.csv_content = <<>>
                THEN /\ resp' = Response("import_prompts_csv", req, 500, current_user, 0,
                                   FailedWith("CSV import failed",
                                              "400: No CSV content provided"))
                     /\ UNCHANGED <<prompts, promptSeq>>
                ELSE ImportAll("import_prompts_csv", req, current_user, Tail(data.csv_content),
                               TRUE, commit, "CSV import failed", TRUE)
             /\ UNCHANGED <<users, session, jwts, stateSeq, now, conn, articles, workers, tokens, tokenSeq>>

\* POST /api/import/md.  Here except HTTPException: raise comes first.
import_prompts_md(request, data, commit) ==
    LET current_user == require_auth(request)
        req == WithData(request, data)
    IN  IF current_user = 0 THEN Unauthenticated("import_prompts_md", req, 0)
        ELSE /\ IF "md_content" \notin DOMAIN data \/ data.md_content = <<>>
                THEN /\ resp' = Response("import_prompts_md", req, 400, current_user, 0,
                                         Detail("No Markdown content provided"))
                     /\ UNCHANGED <<prompts, promptSeq>>
                ELSE ImportAll("import_prompts_md", req, current_user, data.md_content,
                               TRUE, commit, "Markdown import failed", TRUE)
             /\ UNCHANGED <<users, session, jwts, stateSeq, now, conn, articles, workers, tokens, tokenSeq>>

\* POST /api/import/url.  data.format is the format of the request,
\* data.fetch what the GET of data.url ends in and data.document the items
\* of the document it returned.  The function imports re inside its JSON
\* branch, which makes re a local name: the CSV and Markdown branches raise
\* UnboundLocalError at the first row they do not skip.  A format that is
\* none of the three runs no loop and commits nothing.
import_prompts_url(request, data, commit) ==
    LET current_user == require_auth(request)
        req == WithData(request, data)
        route == "import_prompts_url"
        refused(status, detail, e) ==
            /\ resp' = Response(route, req, status, current_user, 0, FailedWith(detail, e))
            /\ UNCHANGED <<prompts, promptSeq>>
    IN  IF current_user = 0 THEN Unauthenticated(route, req, 0)
        ELSE /\ IF data.fetch = "request_error"
                THEN refused(400, "Failed to fetch URL", "ConnectError")
                ELSE IF data.fetch = "http_error"
                THEN refused(500, "URL import failed", "HTTPStatusError")
                ELSE IF data.format = "json"
                THEN IF data.fetch = "invalid_json"
                     THEN refused(400, "Invalid JSON format", "JSONDecodeError")
                     ELSE ImportAll(route, req, current_user, data.document, TRUE, commit,
                                    "URL import failed", TRUE)
                ELSE IF /\ data.format \in {"csv", "md"}
                        /\ \E i \in DOMAIN data.document : ~Skipped(data.document[i])
                THEN refused(500, "URL import failed", "UnboundLocalError")
                ELSE ImportAll(route, req, current_user, <<>>, TRUE, commit,
                               "URL import failed", TRUE)
             /\ UNCHANGED <<users, session, jwts, stateSeq, now, conn, articles, workers, tokens, tokenSeq>>

\* POST /api/mcp/import.  The HTTPException(400) for an unsupported type is
\* raised inside the try block, whose only handler is except Exception.
\* The usage counter is capped at MaxUsage.
mcp_import_prompts(request, data, commit) ==
    LET found == get_current_user_or_token(request)
        current_user == found.user
        req == WithData(request, data)
        import_type == IF "type" \in DOMAIN data THEN data.type ELSE "json"
    IN  /\ \A id \in DOMAIN found.tokens : found.tokens[id].usage_count <= MaxUsage
        /\ tokens' = found.tokens
        /\ tokenSeq' = tokenSeq
        /\ IF current_user = 0
           THEN PromptUnauthenticated("mcp_import_prompts", req, 0, "API token required")
           ELSE /\ IF import_type = "json"
                   THEN ImportAll("mcp_import_prompts", req, current_user,
                                  IF "prompts" \in DOMAIN data THEN data.prompts ELSE <<>>,
                                  TRUE, commit, "MCP import failed", FALSE)
                   ELSE /\ resp' = Response("mcp_import_prompts", req, 500, current_user, 0,
                                            Detail("MCP import failed"))
                        /\ UNCHANGED <<prompts, promptSeq>>
                /\ UNCHANGED <<users, session, jwts, stateSeq, now, conn, articles, workers>>

(***************************************************************************)
(* main.py and auth.py: the Google OAuth bridge                            *)
(***************************************************************************)
Redirect(route, request, user, location) ==
    Response(route, request, 302, user, 0, [location |-> location])

\* GET /api/auth/google (GOOGLE_CLIENT_ID is configured): a fresh state is
\* put into the session and sent to the provider with the redirect.
google_auth(c) ==
    /\ stateSeq < MaxStates
    /\ stateSeq' = stateSeq + 1
    /\ session' = [session EXCEPT ![c].oauth_state = stateSeq + 1]
    /\ resp' = Response("google_auth", SessionRequest(c), 302, 0, 0,
                        [location |-> "https://accounts.google.com/o/oauth2/auth",
                         state |-> stateSeq + 1])
    /\ UNCHANGED <<users, jwts, tokens, tokenSeq, prompts, promptSeq, now, conn, articles, workers>>

\* The rows create_or_update_user_from_google's query matches.
GoogleMatchesMutant(info) ==
    {i \in DOMAIN users : users[i].google_id = info.sub}

GoogleMatches(info) ==
    {i \in DOMAIN users : users[i].google_id = info.sub \/ users[i].email = info.email}

\* The state check of google_callback: TRUE when the callback is refused.
InvalidStateMutant(state, session_state) == state # session_state

InvalidState(state, session_state) ==
    state = 0 \/ session_state = 0 \/ state # session_state

\* request.session.pop('oauth_state', None) in the session of browser c.
PopStateMutant(s, c) == s

PopState(s, c) == [s EXCEPT ![c].oauth_state = 0]

\* The except branch of google_callback: whatever was raised inside the try
\* block is logged and answered with a redirect to the error landing page.
AuthErrorMutant(request) ==
    Response("google_callback", request, 500, 0, 0, [location |-> "none"])

AuthError(request) == Redirect("google_callback", request, 0, "/?auth=error")

\* GET /api/auth/google/callback.  query holds the state and code parameters
\* (0 when absent); provider is what the two calls to Google end in, info
\* the profile Google returns for the code.
google_callback(c, query, provider, info) ==
    LET request == WithData(SessionRequest(c), query)
        session_state == session[c].oauth_state
        error == AuthError(request)
        popped == PopState(session, c)
    IN  /\ UNCHANGED <<tokens, tokenSeq, prompts, promptSeq, stateSeq, now, conn, articles, workers>>
        /\ IF InvalidState(query.state, session_state)
           THEN /\ resp' = error
                /\ UNCHANGED <<users, session, jwts>>
           ELSE IF query.code = 0 \/ provider # "ok"
           THEN /\ resp' = error
                /\ session' = popped
                /\ UNCHANGED <<users, jwts>>
           ELSE IF GoogleMatches(info) # {}
           THEN \E existing_user \in GoogleMatches(info) :
                    IF \E j \in DOMAIN users \ {existing_user} :
                           users[j].google_id = info.sub
                    THEN \* the UPDATE breaks the unique index on google_id
                         /\ resp' = error
                         /\ session' = popped
                         /\ UNCHANGED <<users, jwts>>
                    ELSE /\ users' = [users EXCEPT ![existing_user] =
                                [@ EXCEPT !.google_id = info.sub,
                                          !.auth_provider = "google"]]
                         /\ jwts' = jwts \cup {create_access_token(existing_user)}
                         /\ session' = [popped EXCEPT ![c].user_id = existing_user]
                         /\ resp' = Redirect("google_callback", request, existing_user,
                                             "/dashboard?auth=success")
           ELSE LET id == Len(users) + 1
                IN  /\ users' = Append(users,
                           [email |-> info.email, password_hash |-> NoHash,
                            google_id |-> info.sub, auth_provider |-> "google",
                            is_active |-> TRUE, is_admin |-> FALSE])
                    /\ jwts' = jwts \cup {create_access_token(id)}
                    /\ session' = [popped EXCEPT ![c].user_id = id]
                    /\ resp' = Redirect("google_callback", request, id,
                                        "/dashboard?auth=success")

(***************************************************************************)
(* Initial state: empty tables, no session, nothing served.                *)
(***************************************************************************)
Init ==
    /\ users = <<>>
    /\ session = [c \in Clients |-> [user_id |-> 0, oauth_state |-> 0]]
    /\ jwts = {}
    /\ tokens = <<>>
    /\ tokenSeq = 0
    /\ prompts = <<>>
    /\ promptSeq = 0
    /\ stateSeq = 0
    /\ now = 0
    /\ workers = [w \in Workers |-> Idle]
    /\ articles = NoArticles
    /\ conn = Connected
    /\ resp = Response("none", SessionRequest("c1"), 0, 0, 0, NoBody)

\* GET /api/auth/me.  The principal comes from Depends(get_current_user); for
\* an anonymous request it is None, current_user.id raises AttributeError
\* and the server answers 500.
get_current_user_info(request) ==
    LET current_user == get_current_user(request)
    IN  /\ IF current_user = 0
           THEN resp' = Response("me", request, 500, 0, 0, Detail("Internal Server Error"))
           ELSE resp' = Response("me", request, 200, current_user, 0,
                    [id |-> current_user, email |-> users[current_user].email,
                     auth_provider |-> users[current_user].auth_provider,
                     is_admin |-> users[current_user].is_admin,
                     is_active |-> users[current_user].is_active])
        /\ UNCHANGED <<users, session, jwts, tokens, tokenSeq, prompts, promptSeq,
                       stateSeq, now, conn, articles, workers>>

\* verify_api_token in worker w, up to the query: GET /api/user/profile with
\* the secret as bearer credential and no session.  Without a matching
\* active row the request fails with 401; else the worker holds the row.
verify_api_token_query(w, token) ==
    /\ workers[w].pc = "idle"
    /\ workers[w].served <= MaxUsage
    /\ IF ActiveTokenIds(token) = {}
       THEN /\ resp' = Response("get_user_profile",
                                Request("mcp", BearerOpaque(token), 0), 401, 0, 0,
                                Detail("Not authenticated"))
            /\ UNCHANGED workers
       ELSE /\ \E id \in ActiveTokenIds(token) :
                  workers' = [workers EXCEPT ![w] =
                      [@ EXCEPT !.pc = "loaded", !.token = id,
                                !.usage_count = tokens[id].usage_count]]
            /\ UNCHANGED resp
    /\ UNCHANGED <<users, session, jwts, tokens, tokenSeq, prompts, promptSeq,
                   stateSeq, now, conn, articles>>

\* verify_api_token in worker w, from the assignments to the return:
\* token_record.usage_count += 1 writes the loaded value plus one.
verify_api_token_commit(w) ==
    LET id == workers[w].token
    IN  /\ workers[w].pc = "loaded"
        /\ id \in DOMAIN tokens
        /\ tokens' = [tokens EXCEPT ![id].usage_count = workers[w].usage_count + 1,
                                    ![id].last_used_at = now]
        /\ workers' = [workers EXCEPT ![w] =
                          [Idle EXCEPT !.served = workers[w].served + 1]]
        /\ resp' = Response("get_user_profile",
                            Request("mcp", BearerOpaque(generate_api_token(id)), 0),
                            200, tokens[id].user_id, 0,
                            [id |-> tokens[id].user_id,
                             email |-> users[tokens[id].user_id].email,
                             auth_provider |-> users[tokens[id].user_id].auth_provider,
                             is_admin |-> users[tokens[id].user_id].is_admin])
        /\ UNCHANGED <<users, session, jwts, tokenSeq, prompts, promptSeq, stateSeq, now, conn, articles>>

\* update_prompt in worker w, up to await request.json(): the principal is
\* resolved, the row is loaded and the authorization check is made on the
\* loaded row.  The await lets other requests run before the assignments.
update_prompt_authorize(w, request, prompt_id, data) ==
    LET found == get_current_user_or_token(request)
        current_user == found.user
        req == WithData(request, data)
    IN  /\ workers[w].pc = "idle"
        /\ tokens' = found.tokens
        /\ tokenSeq' = tokenSeq
        /\ IF current_user = 0
           THEN PromptUnauthenticated("update_prompt", req, prompt_id,
                                      "Authentication required")
           ELSE IF prompt_id \notin DOMAIN prompts
           THEN PromptNotFound("update_prompt", req, current_user, prompt_id)
           ELSE IF ~MayMutate(current_user, prompt_id)
           THEN Forbidden("update_prompt", req, current_user, prompt_id)
           ELSE /\ workers' = [workers EXCEPT ![w] =
                       [pc |-> "authorized", route |-> "update_prompt", request |-> req,
                        user |-> current_user, prompt_id |-> prompt_id,
                        loaded |-> prompts[prompt_id]]]
                /\ UNCHANGED <<users, session, jwts, stateSeq, now, conn, articles, prompts, promptSeq, resp>>

\* update_prompt in worker w, from the assignments to the return.  The
\* UPDATE names the row by its id and sets the columns whose value differs
\* from the loaded one; when the row is gone it matches nothing, the flush
\* raises and the handler answers 500.
update_prompt_commit(w) ==
    LET job == workers[w]
        id == job.prompt_id
        data == job.request.data
        set == {f \in DOMAIN data \cap {"title", "content", "is_public"} :
                   data[f] # job.loaded[f]}
    IN  /\ job.pc = "authorized" /\ job.route = "update_prompt"
        /\ workers' = [workers EXCEPT ![w] = Idle]
        /\ IF id \notin DOMAIN prompts
           THEN /\ resp' = Response("update_prompt", job.request, 500, job.user, id,
                                    Detail("Internal server error"))
                /\ UNCHANGED prompts
           ELSE /\ prompts' = [prompts EXCEPT ![id] =
                       [f \in DOMAIN prompts[id] |->
                           IF f \in set THEN data[f] ELSE prompts[id][f]]]
                /\ resp' = Response("update_prompt", job.request, 200, job.user, id,
                       [id |-> id, title |-> prompts'[id].title,
                        content |-> prompts'[id].content,
                        is_public |-> prompts'[id].is_public])
        /\ UNCHANGED <<users, session, jwts, stateSeq, now, conn, articles, tokens, tokenSeq, promptSeq>>

\* delete_prompt in worker w, up to the authorization check.  No await
\* follows the check: another request runs before the DELETE only when it
\* is served by another server process or thread.
delete_prompt_authorize(w, request, prompt_id) ==
    LET found == get_current_user_or_token(request)
        current_user == found.user
    IN  /\ workers[w].pc = "idle"
        /\ tokens' = found.tokens
        /\ tokenSeq' = tokenSeq
        /\ IF current_user = 0
           THEN PromptUnauthenticated("delete_prompt", request, prompt_id,
                                      "Authentication required")
           ELSE IF prompt_id \notin DOMAIN prompts
           THEN PromptNotFound("delete_prompt", request, current_user, prompt_id)
           ELSE IF ~MayMutate(current_user, prompt_id)
           THEN Forbidden("delete_prompt", request, current_user, prompt_id)
           ELSE /\ workers' = [workers EXCEPT ![w] =
                       [pc |-> "authorized", route |-> "delete_prompt", request |-> request,
                        user |-> current_user, prompt_id |-> prompt_id,
                        loaded |-> prompts[prompt_id]]]
                /\ UNCHANGED <<users, session, jwts, stateSeq, now, conn, articles, prompts, promptSeq, resp>>

\* delete_prompt in worker w: db.delete(prompt), db.commit().  The DELETE
\* names the row by its id; matching no row is not an error.
delete_prompt_commit(w) ==
    LET job == workers[w]
        id == job.prompt_id
    IN  /\ job.pc = "authorized" /\ job.route = "delete_prompt"
        /\ workers' = [workers EXCEPT ![w] = Idle]
        /\ prompts' = [i \in DOMAIN prompts \ {id} |-> prompts[i]]
        /\ articles' = OnDeletePrompt(id)
        /\ resp' = Response("delete_prompt", job.request, 200, job.user, id,
                            [message |-> "Prompt deleted successfully"])
        /\ UNCHANGED <<users, session, jwts, stateSeq, now, conn, tokens, tokenSeq, promptSeq>>

\* The unique indexes of the users table (email, google_id): TRUE when the
\* INSERT or UPDATE that makes row the row of id would break one of them.
\* NULL values (no google_id) never collide.
UniqueViolationMutant(id, row) == FALSE

UniqueViolation(id, row) ==
    \E j \in DOMAIN users \ {id} :
        \/ users[j].email = row.email
        \/ row.google_id # "none" /\ users[j].google_id = row.google_id

\* register_user in worker w, up to the query of create_user_from_email.
register_user_check(w, c, email, password) ==
    /\ workers[w].pc = "idle"
    /\ IF UserByEmail(email) # 0
       THEN /\ resp' = Response("register", SessionRequest(c), 400, 0, email,
                                Detail("User with this email already exists"))
            /\ UNCHANGED workers
       ELSE /\ workers' = [workers EXCEPT ![w] =
                   [pc |-> "checked", route |-> "register", client |-> c,
                    email |-> email, password |-> password]]
            /\ UNCHANGED resp
    /\ UNCHANGED <<users, session, jwts, tokens, tokenSeq, prompts, promptSeq, stateSeq, now, conn, articles>>

\* register_user in worker w, from db.add(new_user) to the return.  When the
\* INSERT breaks a unique index db.commit() raises IntegrityError, which
\* register_user turns into 500 "Registration failed".
register_user_insert(w) ==
    LET job == workers[w]
        id == Len(users) + 1
        new_user == [email |-> job.email, password_hash |-> hash_password(job.password),
                     google_id |-> "none", auth_provider |-> "local",
                     is_active |-> TRUE, is_admin |-> FALSE]
    IN  /\ job.pc = "checked" /\ job.route = "register"
        /\ workers' = [workers EXCEPT ![w] = Idle]
        /\ IF UniqueViolation(id, new_user)
           THEN /\ resp' = Response("register", SessionRequest(job.client), 500, 0,
                                    job.email, Detail("Registration failed"))
                /\ UNCHANGED <<users, session, jwts>>
           ELSE /\ users' = Append(users, new_user)
                /\ jwts' = jwts \cup {create_access_token(id)}
                /\ session' = [session EXCEPT ![job.client].user_id = id]
                /\ resp' = Response("register", SessionRequest(job.client), 200, id,
                                    job.email, [user |-> id, token |-> BearerJwt(id, TRUE)])
        /\ UNCHANGED <<tokens, tokenSeq, prompts, promptSeq, stateSeq, now, conn, articles>>

\* google_callback in worker w, up to the query of
\* create_or_update_user_from_google: existing_user is the row it returned,
\* 0 for None.
google_callback_query(w, c, query, provider, info) ==
    LET request == WithData(SessionRequest(c), query)
    IN  /\ workers[w].pc = "idle"
        /\ UNCHANGED <<users, jwts, tokens, tokenSeq, prompts, promptSeq, stateSeq, now, conn, articles>>
        /\ IF InvalidState(query.state, session[c].oauth_state)
           THEN /\ resp' = AuthError(request)
                /\ UNCHANGED <<session, workers>>
           ELSE IF query.code = 0 \/ provider # "ok"
           THEN /\ resp' = AuthError(request)
                /\ session' = PopState(session, c)
                /\ UNCHANGED workers
           ELSE /\ session' = PopState(session, c)
                /\ \E existing_user \in
                         IF GoogleMatches(info) = {} THEN {0} ELSE GoogleMatches(info) :
                      workers' = [workers EXCEPT ![w] =
                          [pc |-> "queried", route |-> "google_callback", client |-> c,
                           request |-> request, info |-> info,
                           existing_user |-> existing_user]]
                /\ UNCHANGED resp

\* google_callback in worker w, from the UPDATE or INSERT of
\* create_or_update_user_from_google to the return.  An IntegrityError of
\* db.commit() ends in the except branch of google_callback.
google_callback_write(w) ==
    LET job == workers[w]
        info == job.info
        c == job.client
        id == IF job.existing_user # 0 THEN job.existing_user ELSE Len(users) + 1
        row == IF job.existing_user # 0
               THEN [users[id] EXCEPT !.google_id = info.sub, !.auth_provider = "google"]
               ELSE [email |-> info.email, password_hash |-> NoHash,
                     google_id |-> info.sub, auth_provider |-> "google",
                     is_active |-> TRUE, is_admin |-> FALSE]
    IN  /\ job.pc = "queried" /\ job.route = "google_callback"
        /\ workers' = [workers EXCEPT ![w] = Idle]
        /\ IF UniqueViolation(id, row)
           THEN /\ resp' = AuthError(job.request)
                /\ UNCHANGED <<users, session, jwts>>
           ELSE /\ users' = [i \in DOMAIN users \cup {id} |->
                                IF i = id THEN row ELSE users[i]]
                /\ jwts' = jwts \cup {create_access_token(id)}
                /\ session' = [session EXCEPT ![c].user_id = id]
                /\ resp' = Redirect("google_callback", job.request, id,
                                    "/dashboard?auth=success")
        /\ UNCHANGED <<tokens, tokenSeq, prompts, promptSeq, stateSeq, now, conn, articles>>

\* delay = min(delay * 1.5, 10000).  The values reached are whole numbers.
NextDelayMutant(delay) == (delay * 3) \div 2

NextDelay(delay) ==
    IF (delay * 3) \div 2 < MaxDelay THEN (delay * 3) \div 2 ELSE MaxDelay

\* One pass of the loop body of connect_with_retry up to the sleep: the
\* attempt returns True, raises OperationalError, or raises something else,
\* which no except clause catches.  After an OperationalError the function
\* sleeps when i < retries - 1; else the loop ends and the function raises.
connect_attempt(outcome) ==
    /\ conn.pc = "attempt"
    /\ conn' = [conn EXCEPT
                  !.log = Append(@, outcome),
                  !.pc = IF outcome = "ok" THEN "returned"
                         ELSE IF outcome # "OperationalError" THEN "raised"
                         ELSE IF conn.i < conn.retries - 1 THEN "sleep"
                         ELSE "raised"]
    /\ UNCHANGED <<users, session, jwts, tokens, tokenSeq, prompts, promptSeq, stateSeq,
                   now, workers, articles, resp>>

\* time.sleep(delay / 1000), the new delay, and the next value of i.
connect_sleep ==
    /\ conn.pc = "sleep"
    /\ conn' = [conn EXCEPT !.waits = Append(@, conn.delay),
                            !.delay = NextDelay(conn.delay),
                            !.i = @ + 1,
                            !.pc = "attempt"]
    /\ UNCHANGED <<users, session, jwts, tokens, tokenSeq, prompts, promptSeq, stateSeq,
                   now, workers, articles, resp>>

\* The clock advances by an hour.
Tick ==
    /\ now < MaxTime
    /\ now' = now + 1
    /\ UNCHANGED <<users, session, jwts, tokens, tokenSeq, prompts, promptSeq,
                   stateSeq, workers, articles, conn, resp>>

(***************************************************************************)
(* A database that already holds rows when the server starts: the account  *)
(* a@x.com, registered with a password, whose is_active column is either   *)
(* value, and one API token of that account, active or not, with or        *)
(* without an expiry time.                                                 *)
(***************************************************************************)
StoredUser(is_active) ==
    [email |-> "a@x.com", password_hash |-> hash_password("Passw0rd1"),
     google_id |-> "none", auth_provider |-> "local",
     is_active |-> is_active, is_admin |-> FALSE]

StoredToken(is_active, expires_at) ==
    [name |-> "MCP Token", description |-> "",
     token_hash |-> hash_token(generate_api_token(1)), user_id |-> 1,
     is_active |-> is_active, usage_count |-> 0, last_used_at |-> None,
     expires_at |-> expires_at, permissions |-> {"read", "write"}]

InitStored ==
    /\ \E is_active \in BOOLEAN : users = <<StoredUser(is_active)>>
    /\ \E is_active \in BOOLEAN, expires_at \in {None, 1} :
          tokens = <<StoredToken(is_active, expires_at)>>
    /\ tokenSeq = 1
    /\ session = [c \in Clients |-> [user_id |-> 0, oauth_state |-> 0]]
    /\ jwts = {}
    /\ prompts = <<>>
    /\ promptSeq = 0
    /\ stateSeq = 0
    /\ now = 0
    /\ workers = [w \in Workers |-> Idle]
    /\ articles = NoArticles
    /\ conn = Connected
    /\ resp = Response("none", SessionRequest("c1"), 0, 0, 0, NoBody)

(***************************************************************************)
(* Token management: two browsers, each registering its own account, and   *)
(* the token routes called with the cookie session.                        *)
(***************************************************************************)
EmailOf(c) == IF c = "c1" THEN "a@x.com" ELSE "isky999@gmail.com"

TokenIds == 1..MaxTokens

\* Request bodies: <<>> is the body {} (every field defaulted).
CreateData == {<<>>,
               [name |-> "Hacked Token", description |-> "d", permissions |-> {"read"}]}
UpdateData == {[name |-> "Hacked Token", description |-> "d", permissions |-> {"read"}],
               [is_active |-> FALSE],
               [name |-> "MCP Token", is_active |-> TRUE]}

NextTokens ==
    \/ \E c \in Browsers : register_user(c, EmailOf(c), "Passw0rd1")
    \/ \E c \in Browsers : get_tokens(SessionRequest(c))
    \/ \E c \in Browsers, data \in CreateData : create_token(SessionRequest(c), data)
    \/ \E c \in Browsers, id \in TokenIds, data \in UpdateData :
           update_token(SessionRequest(c), id, data)
    \/ \E c \in Browsers, id \in TokenIds : delete_token(SessionRequest(c), id)
    \/ \E c \in Browsers, id \in TokenIds : get_mcp_config(SessionRequest(c), id)
    \/ \E c \in Browsers : debug_token_ownership(SessionRequest(c))

SpecTokens == Init /\ [][NextTokens]_vars

(***************************************************************************)
(* API-token verification: tokens are created, switched on and off and     *)
(* deleted by the browsers, and presented as bearer credentials by the     *)
(* programmatic client.                                                    *)
(***************************************************************************)
ActiveData == {[is_active |-> FALSE], [is_active |-> TRUE]}

\* What a client may present: a secret ever issued, a stored hash, or junk.
Presented == {generate_api_token(n) : n \in TokenIds}
                 \cup {hash_token(generate_api_token(1))}

NextVerify ==
    \/ \E c \in Browsers : register_user(c, EmailOf(c), "Passw0rd1")
    \/ \E c \in Browsers : create_token(SessionRequest(c), <<>>)
    \/ \E c \in Browsers, id \in TokenIds, data \in ActiveData :
           update_token(SessionRequest(c), id, data)
    \/ \E c \in Browsers, id \in TokenIds : delete_token(SessionRequest(c), id)
    \/ \E v \in Presented : get_user_profile(Request("mcp", BearerOpaque(v), 0))

SpecVerify == Init /\ [][NextVerify]_vars

(***************************************************************************)
(* Reading prompts: two accounts, one of them made administrator, prompts  *)
(* of either owner, public or private, read through the four read routes.  *)
(***************************************************************************)
PromptIds == 1..MaxPrompts
Titles == {<<"A", "b">>, <<"b">>}
PromptNames == {<<"a", "B">>, <<"B">>, <<"c">>}

NewPrompts(titles) ==
    [title : titles, content : {"v1"}, user_id : DOMAIN users, is_public : BOOLEAN]

NextRead ==
    \/ \E c \in Browsers : register_user(c, EmailOf(c), "Passw0rd1")
    \/ set_admin_user_endpoint
    \/ \E c \in Browsers, data \in NewPrompts(Titles) :
           create_prompt(SessionRequest(c), data)
    \/ \E c \in Browsers, o \in {"asc", "desc"} : get_prompts(SessionRequest(c), o)
    \/ \E c \in Browsers, id \in PromptIds : get_prompt(SessionRequest(c), id)
    \/ \E c \in Browsers : mcp_get_prompts(SessionRequest(c))
    \/ \E c \in Browsers, n \in PromptNames : mcp_get_prompt(SessionRequest(c), n)

SpecRead == Init /\ [][NextRead]_vars

(***************************************************************************)
(* Changing prompts: the same accounts, updating and deleting prompts.     *)
(***************************************************************************)
PromptPatches == {[content |-> "v2"], [is_public |-> FALSE],
                  [is_public |-> TRUE, content |-> "v1"]}

NextWrite ==
    \/ \E c \in Browsers : register_user(c, EmailOf(c), "Passw0rd1")
    \/ set_admin_user_endpoint
    \/ \E c \in Browsers, data \in NewPrompts({<<"b">>}) \cup {<<>>} :
           create_prompt(SessionRequest(c), data)
    \/ \E c \in Browsers, id \in PromptIds, data \in PromptPatches :
           update_prompt(SessionRequest(c), id, data)
    \/ \E c \in Browsers, id \in PromptIds : delete_prompt(SessionRequest(c), id)

SpecWrite == Init /\ [][NextWrite]_vars

(***************************************************************************)
(* The OAuth bridge: browsers start the flow, callbacks arrive with any    *)
(* state value (0 is an absent parameter), and sessions are cleared.       *)
(***************************************************************************)
CallbackQueries == [state : 0..MaxStates, code : {0, 1}]
ProviderOutcomes == {"ok", "token_exchange_failed", "no_access_token", "userinfo_failed"}
GoogleProfiles == {[sub |-> "g1", email |-> "a@x.com"],
                   [sub |-> "g2", email |-> "isky999@gmail.com"],
                   [sub |-> "g1", email |-> "isky999@gmail.com"]}

NextOAuth ==
    \/ \E c \in Browsers : google_auth(c)
    \/ \E c \in Browsers, query \in CallbackQueries, provider \in ProviderOutcomes,
          info \in GoogleProfiles : google_callback(c, query, provider, info)
    \/ \E c \in Browsers : logout(c)

SpecOAuth == Init /\ [][NextOAuth]_vars

(***************************************************************************)
(* Password login: accounts are registered, log in with either password,   *)
(* change their password and sign in with Google under the same email.     *)
(***************************************************************************)
Logins == [email : Emails, password : Passwords]
PasswordChanges == [current_password : Passwords, new_password : Passwords]

NextLogin ==
    \/ \E c \in Browsers : register_user(c, "a@x.com", "Passw0rd1")
    \/ \E c \in Browsers, user_data \in Logins : login_user(c, user_data)
    \/ \E c \in Browsers, password_data \in PasswordChanges :
          change_password(SessionRequest(c), password_data)
    \/ \E password_data \in PasswordChanges :
          change_password(Request("mcp", BearerJwt(1, TRUE), 0), password_data)
    \/ google_auth("c2")
    \/ \E info \in GoogleProfiles :
          google_callback("c2", [state |-> stateSeq, code |-> 1], "ok", info)
    \/ \E c \in Browsers : logout(c)

SpecLogin == Init /\ [][NextLogin]_vars

(***************************************************************************)
(* Principal resolution: requests that carry any mix of a session, an      *)
(* Authorization header and an X-API-Token header, sent to a route that    *)
(* resolves with get_current_user_or_token and to one that uses            *)
(* require_auth.                                                           *)
(***************************************************************************)
AuthorizationHeaders ==
    {NoHeader, BearerJwt(1, TRUE), BearerJwt(2, TRUE), BearerJwt(2, FALSE),
     BearerOpaque(generate_api_token(1))}
ApiTokenHeaders == {0, generate_api_token(1)}
MixedRequests ==
    {Request(c, h, x) : c \in Clients, h \in AuthorizationHeaders, x \in ApiTokenHeaders}

NextResolve ==
    \/ \E c \in Browsers : register_user(c, EmailOf(c), "Passw0rd1")
    \/ \E c \in Browsers : logout(c)
    \/ create_token(SessionRequest("c2"), <<>>)
    \/ \E request \in MixedRequests : get_user_profile(request)
    \/ \E request \in MixedRequests : get_tokens(request)

SpecResolve == Init /\ [][NextResolve]_vars

(***************************************************************************)
(* Accounts with either value of the active flag: password login, Google   *)
(* sign-in under the stored email, and routes called with the session.     *)
(***************************************************************************)
NextStored ==
    \/ \E user_data \in Logins : login_user("c1", user_data)
    \/ google_auth("c2")
    \/ \E info \in GoogleProfiles :
          google_callback("c2", [state |-> session["c2"].oauth_state, code |-> 1], "ok", info)
    \/ \E c \in Browsers : logout(c)
    \/ \E c \in Clients : get_user_profile(SessionRequest(c))
    \/ \E c \in Clients : get_current_user_info(SessionRequest(c))
    \/ \E c \in Clients, password_data \in PasswordChanges :
          change_password(SessionRequest(c), password_data)

SpecStored == InitStored /\ [][NextStored]_vars

(***************************************************************************)
(* A stored API token, active or not, with or without an expiry time,      *)
(* presented in either header while the clock runs.                        *)
(***************************************************************************)
NextExpiry ==
    \/ Tick
    \/ get_user_profile(Request("mcp", BearerOpaque(generate_api_token(1)), 0))
    \/ get_user_profile(Request("mcp", NoHeader, generate_api_token(1)))

SpecExpiry == InitStored /\ [][NextExpiry]_vars

(***************************************************************************)
(* Concurrent verification: two workers verify the stored token, each      *)
(* between its query and its commit while the other runs.                  *)
(***************************************************************************)
NextConcurrent ==
    \/ \E w \in Workers : verify_api_token_query(w, generate_api_token(1))
    \/ \E w \in Workers : verify_api_token_commit(w)

SpecConcurrent == InitStored /\ [][NextConcurrent]_vars

(***************************************************************************)
(* Requests without credentials: accounts, tokens and a prompt exist, and  *)
(* every token route and the prompt list are called by clients that are    *)
(* logged in, logged out or never logged in.                               *)
(***************************************************************************)
NextAnonymous ==
    \/ register_user("c1", "a@x.com", "Passw0rd1")
    \/ \E c \in Browsers : logout(c)
    \/ \E c \in Browsers :
          create_prompt(SessionRequest(c), [title |-> <<"b">>, content |-> "v1",
                                            user_id |-> 1, is_public |-> TRUE])
    \/ \E c \in Browsers : get_tokens(SessionRequest(c))
    \/ \E c \in Browsers : create_token(SessionRequest(c), <<>>)
    \/ \E c \in Browsers, id \in TokenIds :
          update_token(SessionRequest(c), id, [is_active |-> FALSE])
    \/ \E c \in Browsers, id \in TokenIds : delete_token(SessionRequest(c), id)
    \/ \E c \in Browsers, id \in TokenIds : get_mcp_config(SessionRequest(c), id)
    \/ \E c \in Browsers : debug_token_ownership(SessionRequest(c))
    \/ \E c \in Browsers : get_prompts(SessionRequest(c), "desc")

SpecAnonymous == Init /\ [][NextAnonymous]_vars

(***************************************************************************)
(* Registration: either browser registers either email with either         *)
(* password, logs in and out.                                              *)
(***************************************************************************)
NextRegister ==
    \/ \E c \in Browsers, email \in Emails, password \in Passwords :
          register_user(c, email, password)
    \/ \E c \in Browsers, user_data \in Logins : login_user(c, user_data)
    \/ \E c \in Browsers : logout(c)

SpecRegister == Init /\ [][NextRegister]_vars

(***************************************************************************)
(* Session tokens over time: an account registers at some hour and gets a  *)
(* token; a client without session presents that token, or the token with  *)
(* an altered expiry or subject, or signed with another secret, at any     *)
(* later hour.                                                             *)
(***************************************************************************)
PresentedJwts ==
    UNION {{Jwt(p.sub, p.exp, TRUE), Jwt(p.sub, p.exp, FALSE),
            Jwt(p.sub, p.exp + 1, TRUE), Jwt(p.sub + 1, p.exp, TRUE)} : p \in jwts}

NextJwt ==
    \/ Tick
    \/ register_user("c1", "a@x.com", "Passw0rd1")
    \/ \E token \in PresentedJwts : get_user_profile(Request("mcp", token, 0))

SpecJwt == Init /\ [][NextJwt]_vars

(***************************************************************************)
(* Bulk import: a stored account logs in, a second one registers, and both *)
(* import lists of items through the import routes; the programmatic       *)
(* client imports with the stored API token or with nothing.               *)
(***************************************************************************)
\* Items: one with everything, a private one, one without a title, and one
\* the loop body raises on.
PublicItem ==
    [title |-> <<"b">>, content |-> "v1", is_public |-> TRUE, well_formed |-> TRUE]
PrivateItem ==
    [title |-> <<"A", "b">>, content |-> "v2", is_public |-> FALSE, well_formed |-> TRUE]
UntitledItem ==
    [title |-> <<>>, content |-> "v1", is_public |-> FALSE, well_formed |-> TRUE]
BrokenItem ==
    [title |-> <<"A", "b">>, content |-> "v2", is_public |-> FALSE, well_formed |-> FALSE]

ItemLists ==
    {<<>>, <<PublicItem>>, <<BrokenItem>>, <<UntitledItem, PrivateItem>>,
     <<PublicItem, BrokenItem>>, <<PublicItem, PrivateItem>>}

\* What Pydantic lets through as BulkImportRequest.
ValidLists == {items \in ItemLists : \A i \in DOMAIN items : items[i].well_formed}

\* The header line of a CSV text, read by csv.DictReader as the field names.
CsvHeader ==
    [title |-> <<"t", "i", "t", "l", "e">>, content |-> "content", is_public |-> FALSE,
     well_formed |-> TRUE]

CsvForms == {<<>>, [csv_content |-> <<>>]}
               \cup {[csv_content |-> <<CsvHeader>> \o items] : items \in ItemLists}
MdForms == {<<>>} \cup {[md_content |-> items] : items \in ItemLists}
UrlImports ==
    [format : {"json"}, fetch : {"ok"}, document : ItemLists]
       \cup [format : {"csv", "md", "xml"}, fetch : {"ok"},
             document : {<<UntitledItem>>, <<PublicItem>>}]
       \cup [format : {"json"}, fetch : {"request_error", "http_error", "invalid_json"},
             document : {<<>>}]
McpImports == {<<>>, [type |-> "csv"]} \cup {[type |-> "json", prompts |-> items] : items \in ItemLists}
CommitOutcomes == {"ok", "failed"}

NextImport ==
    \/ login_user("c1", [email |-> "a@x.com", password |-> "Passw0rd1"])
    \/ register_user("c2", "isky999@gmail.com", "Passw0rd1")
    \/ \E items \in ValidLists, commit \in CommitOutcomes :
          import_prompts_json(SessionRequest("c1"), [prompts |-> items], commit)
    \/ \E data \in CsvForms, commit \in CommitOutcomes :
          import_prompts_csv(SessionRequest("c2"), data, commit)
    \/ \E data \in MdForms, commit \in CommitOutcomes :
          import_prompts_md(SessionRequest("c1"), data, commit)
    \/ \E data \in UrlImports, commit \in CommitOutcomes :
          import_prompts_url(SessionRequest("c2"), data, commit)
    \/ \E x \in ApiTokenHeaders, data \in McpImports, commit \in CommitOutcomes :
          mcp_import_prompts(Request("mcp", NoHeader, x), data, commit)
    \/ set_admin_user_endpoint

\* The stored account and its token are usable.
InitImport ==
    /\ InitStored
    /\ users[1].is_active
    /\ tokens[1].is_active /\ tokens[1].expires_at = None

SpecImport == InitImport /\ [][NextImport]_vars

(***************************************************************************)
(* Concurrent changes of one prompt: its owner (browser c1) and an         *)
(* administrator (browser c2) are logged in, the owner's prompt is public, *)
(* and two requests at a time update or delete it.                         *)
(***************************************************************************)
\* Two users with a session each and one public prompt of the first.
StoredRace ==
    /\ users = <<[StoredUser(TRUE) EXCEPT !.email = "a@x.com"],
                 [StoredUser(TRUE) EXCEPT !.email = "isky999@gmail.com",
                                          !.is_admin = TRUE]>>
    /\ session = [c \in Clients |->
                    [user_id |-> IF c = "c1" THEN 1 ELSE IF c = "c2" THEN 2 ELSE 0,
                     oauth_state |-> 0]]
    /\ jwts = {[sub |-> 1, exp |-> JWT_EXPIRATION_HOURS],
               [sub |-> 2, exp |-> JWT_EXPIRATION_HOURS]}
    /\ tokens = <<>>
    /\ tokenSeq = 0
    /\ prompts = <<[title |-> <<"b">>, content |-> "v1", user_id |-> 1,
                    is_public |-> TRUE]>>
    /\ promptSeq = 1
    /\ stateSeq = 0
    /\ now = 0
    /\ workers = [w \in Workers |-> Idle]
    /\ conn = Connected
    /\ resp = Response("none", SessionRequest("c1"), 0, 0, 0, NoBody)

InitRace ==
    /\ StoredRace
    /\ articles = NoArticles

NextRace ==
    \/ \E w \in Workers, c \in Browsers, data \in PromptPatches :
          update_prompt_authorize(w, SessionRequest(c), 1, data)
    \/ \E w \in Workers : update_prompt_commit(w)
    \/ \E w \in Workers, c \in Browsers : delete_prompt_authorize(w, SessionRequest(c), 1)
    \/ \E w \in Workers : delete_prompt_commit(w)

SpecRace == InitRace /\ [][NextRace]_vars

(***************************************************************************)
(* Concurrent sign-ups: two requests at a time register with a password or *)
(* come back from Google, with the same or different emails and ids.       *)
(***************************************************************************)
NextSignup ==
    \/ \E w \in Workers, c \in Browsers, email \in Emails :
          register_user_check(w, c, email, "Passw0rd1")
    \/ \E w \in Workers : register_user_insert(w)
    \/ \E c \in Browsers : google_auth(c)
    \/ \E w \in Workers, c \in Browsers, info \in GoogleProfiles :
          google_callback_query(w, c, [state |-> session[c].oauth_state, code |-> 1],
                                "ok", info)
    \/ \E w \in Workers : google_callback_write(w)

SpecSignup == Init /\ [][NextSignup]_vars

(***************************************************************************)
(* Articles: two logged-in users, one public prompt.  The articles table   *)
(* was made by create_tables at startup, or startup failed and the table   *)
(* is made by the migration endpoint.  Users write articles about their    *)
(* prompts and delete prompts.                                             *)
(***************************************************************************)
InitArticles ==
    /\ StoredRace
    /\ \E schema \in {"orm", "absent"} : articles = [schema |-> schema, rows |-> <<>>]

NewArticles == [title : {"t"}, prompt_id : 0..MaxPrompts]

NextArticles ==
    \/ migrate_articles_table
    \/ \E c \in Browsers, data \in NewArticles : create_article(SessionRequest(c), data)
    \/ \E c \in Browsers :
          create_prompt(SessionRequest(c), [title |-> <<"b">>, content |-> "v1",
                                            user_id |-> session[c].user_id,
                                            is_public |-> FALSE])
    \/ \E c \in Browsers, id \in PromptIds : delete_prompt(SessionRequest(c), id)

SpecArticles == InitArticles /\ [][NextArticles]_vars

(***************************************************************************)
(* Startup: connect_with_retry is called with the default arguments or     *)
(* with others, and each attempt ends in one of three ways.  An attempt    *)
(* and a sleep both end, so each step that can be taken is taken.          *)
(***************************************************************************)
AttemptOutcomes == {"ok", "OperationalError", "InterfaceError"}
InitialDelays == {DefaultDelay, 4000, 8000}

InitStartup ==
    /\ users = <<>>
    /\ session = [c \in Clients |-> [user_id |-> 0, oauth_state |-> 0]]
    /\ jwts = {}
    /\ tokens = <<>>
    /\ tokenSeq = 0
    /\ prompts = <<>>
    /\ promptSeq = 0
    /\ stateSeq = 0
    /\ now = 0
    /\ workers = [w \in Workers |-> Idle]
    /\ articles = [schema |-> "absent", rows |-> <<>>]
    /\ \E retries \in 1..MaxRetries, delay \in InitialDelays : conn = Call(retries, delay)
    /\ resp = Response("none", SessionRequest("c1"), 0, 0, 0, NoBody)

NextStartup ==
    \/ \E outcome \in AttemptOutcomes : connect_attempt(outcome)
    \/ connect_sleep

SpecStartup == InitStartup /\ [][NextStartup]_vars /\ WF_vars(NextStartup)

(***************************************************************************)
(* Properties of token management, checked under SpecTokens.               *)
(***************************************************************************)
TokenRoutesById == {"update_token", "delete_token", "get_mcp_config"}

\* C1: the list GET /api/tokens returns to a user holds exactly the token
\* rows whose owner is that user, each marked with that owner, and never a
\* row owned by somebody else; the user is the one bound to the caller's
\* session.
C1_ListIsOwnTokens ==
    (resp.route = "get_tokens" /\ resp.status = 200) =>
        /\ resp.user = session[resp.request.client].user_id
        /\ {item.id : item \in resp.body.tokens}
               = {id \in DOMAIN tokens : tokens[id].user_id = resp.user}
        /\ \A item \in resp.body.tokens :
               /\ item.owner_user_id = resp.user
               /\ tokens[item.id].user_id = resp.user
        /\ resp.body.count = Cardinality(resp.body.tokens)

\* A list was returned to a user who owns a token while another user owns
\* one too.
C1_Witness ==
    /\ resp.route = "get_tokens" /\ resp.status = 200
    /\ resp.body.tokens # {}
    /\ \E id \in DOMAIN tokens : tokens[id].user_id # resp.user

\* C2: update, delete and mcp-config on a token id owned by another user
\* answer 404 "Token not found", the answer given for an id that does not
\* exist, and leave the tokens table as it was.
C2_ForeignTokenIs404 ==
    [][(/\ resp'.route \in TokenRoutesById
        /\ resp'.user # 0
        /\ \/ resp'.arg \notin DOMAIN tokens
           \/ tokens[resp'.arg].user_id # resp'.user)
       => (/\ resp'.status = 404
           /\ resp'.body = Detail("Token not found")
           /\ tokens' = tokens)]_vars

\* A request on another user's token was answered 404 and the token is
\* still there.
C2_Witness ==
    /\ resp.route \in TokenRoutesById
    /\ resp.status = 404
    /\ resp.arg \in DOMAIN tokens
    /\ tokens[resp.arg].user_id # resp.user
    /\ resp.user # 0

\* The secrets generated so far and their hashes.
SecretsIssued == {generate_api_token(n) : n \in 1..tokenSeq}
HashesIssued == {hash_token(s) : s \in SecretsIssued}

\* The fields of a response body or of a list entry that hold a number.
NumberFields == {"id", "token", "token_hash", "PROMPTHOUSE_ACCESS_TOKEN",
                 "token_id", "user_id", "owner_user_id", "usage_count", "count",
                 "current_user_id", "user_tokens_count", "total_tokens_in_system"}
ListFields == {"tokens", "user_tokens"}

NumbersOf(rec) == {rec[f] : f \in DOMAIN rec \cap NumberFields}

\* Every number a response body carries, the entries of its lists included.
NumbersIn(body) ==
    NumbersOf(body) \cup
    UNION {UNION {NumbersOf(item) : item \in body[f]} : f \in DOMAIN body \cap ListFields}

\* C3: a token row stores the hash of its secret and not the secret; the
\* response that creates a token carries that token's secret and nothing
\* else secret; no other response carries any secret or any hash.
C3_SecretOnlyAtCreation ==
    /\ \A id \in DOMAIN tokens :
           /\ tokens[id].token_hash = hash_token(generate_api_token(id))
           /\ NumbersOf(tokens[id]) \cap SecretsIssued = {}
    /\ (resp.route = "create_token" /\ resp.status = 200) =>
           /\ resp.body.token = generate_api_token(resp.arg)
           /\ NumbersIn(resp.body) \cap (SecretsIssued \cup HashesIssued)
                  = {generate_api_token(resp.arg)}
    /\ (resp.route \in {"get_tokens", "update_token", "delete_token",
                        "get_mcp_config", "debug_token_ownership"}) =>
           NumbersIn(resp.body) \cap (SecretsIssued \cup HashesIssued) = {}

\* A later response (list or mcp-config) shows a token that was created.
C3_Witness ==
    \/ /\ resp.route = "get_tokens" /\ resp.status = 200 /\ resp.body.tokens # {}
    \/ /\ resp.route = "get_mcp_config" /\ resp.status = 200

(***************************************************************************)
(* Properties of API-token verification, checked under SpecVerify.         *)
(***************************************************************************)
\* The user verify_api_token returns for the n-th secret in this state.
VerifiedUser(n) == verify_api_token(generate_api_token(n)).user

\* In every state: a secret verifies exactly when its token row exists and
\* is active, and then to the row's owner; right after creation that is the
\* creator; after a refused delete the token verifies as its flag says; the
\* principal a handler resolved from a bearer secret is the verified user.
C4_State ==
    /\ \A n \in 1..tokenSeq :
           VerifiedUser(n) = IF n \in DOMAIN tokens /\ tokens[n].is_active
                             THEN tokens[n].user_id ELSE 0
    /\ (resp.route = "create_token" /\ resp.status = 200) =>
           VerifiedUser(resp.arg) = resp.user /\ resp.user # 0
    /\ (resp.route = "delete_token" /\ resp.status = 200) =>
           VerifiedUser(resp.arg) = 0
    /\ (resp.route = "delete_token" /\ resp.status = 404
            /\ resp.arg \in DOMAIN tokens /\ tokens[resp.arg].is_active) =>
           VerifiedUser(resp.arg) = tokens[resp.arg].user_id
    /\ (resp.route = "get_user_profile") =>
           /\ resp.status = IF resp.user = 0 THEN 401 ELSE 200
           /\ \A n \in 1..tokenSeq :
                  resp.request.authorization.value = generate_api_token(n) =>
                      resp.user = VerifiedUser(n)

\* In every step: a deleted token never comes back, a token's owner never
\* changes, and its active flag changes only through a successful update of
\* that token by its owner.
C4_Step ==
    \A n \in 1..tokenSeq :
        /\ n \notin DOMAIN tokens => n \notin DOMAIN tokens'
        /\ (n \in DOMAIN tokens /\ n \in DOMAIN tokens') =>
               /\ tokens'[n].user_id = tokens[n].user_id
               /\ tokens'[n].is_active # tokens[n].is_active =>
                      /\ resp'.route = "update_token" /\ resp'.status = 200
                      /\ resp'.arg = n
                      /\ resp'.user = tokens[n].user_id
        /\ (n \in DOMAIN tokens /\ n \notin DOMAIN tokens') =>
               /\ resp'.route = "delete_token" /\ resp'.status = 200
               /\ resp'.arg = n
               /\ resp'.user = tokens[n].user_id

\* C4: the secret of a token verifies to the token's creator right after
\* creation; a refused delete by another user changes nothing of that; once
\* the owner deletes the token or switches it off its secret fails, in every
\* later state, until the owner switches that token on again.
C4_VerifyFollowsActivation == []C4_State /\ [][C4_Step]_vars

\* A secret is refused after its token was switched off, having been
\* accepted before (its usage counter is not 0).
C4_Witness ==
    /\ resp.route = "get_user_profile" /\ resp.status = 401
    /\ \E n \in DOMAIN tokens :
           /\ resp.request.authorization.value = generate_api_token(n)
           /\ ~tokens[n].is_active
           /\ tokens[n].usage_count > 0

(***************************************************************************)
(* Properties of the prompt read routes, checked under SpecRead.           *)
(***************************************************************************)
ReadRoutes == {"get_prompt", "get_prompts", "mcp_get_prompts", "mcp_get_prompt"}

\* The rule of the data model: public, or owned by the requester.
Visible(user, id) == prompts[id].is_public \/ prompts[id].user_id = user

VisibleSet(user) == {id \in DOMAIN prompts : Visible(user, id)}

\* The prompt rows the last response was built from.
ReturnedRows ==
    IF resp.status # 200 THEN {}
    ELSE IF resp.route = "get_prompt" THEN {resp.body.id}
    ELSE IF resp.route = "get_prompts" THEN {item.id : item \in resp.body.prompts}
    ELSE IF resp.route = "mcp_get_prompts" THEN {item.row : item \in resp.body.prompts}
    ELSE IF resp.route = "mcp_get_prompt" THEN {resp.body.row}
    ELSE {}

\* The prompt rows the last request asked for: the one with the id, every
\* row, or the rows whose title contains the name.
RequestedRows ==
    IF resp.route = "get_prompt" THEN DOMAIN prompts \cap {resp.arg}
    ELSE IF resp.route = "mcp_get_prompt"
         THEN {id \in DOMAIN prompts : ILike(prompts[id].title, resp.arg)}
    ELSE DOMAIN prompts

WriteRoutes == {"update_prompt", "delete_prompt"}
PromptColumns == {"title", "content", "is_public"}

\* C6: an update or delete of an existing prompt by an authenticated
\* requester answers 200 and takes effect (the row is gone, or holds the
\* body's fields and is otherwise as before) exactly when the requester owns
\* the prompt or is an administrator and the prompt is public; in every
\* other case it answers 403 and the prompts table is unchanged.
C6_MutableIffOwnerOrAdminPublic ==
    [][(resp'.route \in WriteRoutes /\ resp'.user # 0 /\ resp'.arg \in DOMAIN prompts) =>
           LET id == resp'.arg
               data == resp'.request.data
               allowed == \/ prompts[id].user_id = resp'.user
                          \/ users[resp'.user].is_admin /\ prompts[id].is_public
           IN  IF allowed
               THEN /\ resp'.status = 200
                    /\ \A i \in DOMAIN prompts \ {id} :
                           i \in DOMAIN prompts' /\ prompts'[i] = prompts[i]
                    /\ resp'.route = "delete_prompt" => id \notin DOMAIN prompts'
                    /\ resp'.route = "update_prompt" =>
                           /\ id \in DOMAIN prompts'
                           /\ prompts'[id].user_id = prompts[id].user_id
                           /\ \A f \in PromptColumns :
                                  prompts'[id][f] = IF f \in DOMAIN data THEN data[f]
                                                    ELSE prompts[id][f]
               ELSE /\ resp'.status = 403
                    /\ prompts' = prompts]_vars

\* An administrator was refused (403) on another user's private prompt.
C6_Witness ==
    /\ resp.route \in WriteRoutes /\ resp.status = 403
    /\ resp.user # 0 /\ users[resp.user].is_admin
    /\ resp.arg \in DOMAIN prompts
    /\ ~prompts[resp.arg].is_public
    /\ prompts[resp.arg].user_id # resp.user

(***************************************************************************)
(* Properties of the OAuth callback, checked under SpecOAuth.              *)
(***************************************************************************)
\* The step is a callback served to browser c.
CallbackStep(c) ==
    resp'.route = "google_callback" /\ resp'.request.client = c

\* The callback of this step is rejected: it redirects to the error page,
\* no user row is created or changed, no session token is signed and the
\* session's subject stays what it was.
Rejected(c) ==
    /\ resp'.status = 302
    /\ resp'.body.location = "/?auth=error"
    /\ users' = users
    /\ jwts' = jwts
    /\ session'[c].user_id = session[c].user_id

\* C7: a callback whose state parameter is absent, whose session holds no
\* state, or whose state differs from the session's is rejected and leaves
\* every session as it was; so is every callback in a session in which the
\* flow was never started.
C7_BadStateRejected ==
    [][\A c \in Browsers :
          (/\ CallbackStep(c)
           /\ \/ resp'.request.data.state = 0
              \/ session[c].oauth_state = 0
              \/ resp'.request.data.state # session[c].oauth_state)
          => (Rejected(c) /\ session' = session)]_vars

\* A callback with a state and a code was rejected in a session that holds
\* no state, while states have been issued.
C7_Witness ==
    /\ resp.route = "google_callback"
    /\ resp.body.location = "/?auth=error"
    /\ resp.request.data.state # 0 /\ resp.request.data.code # 0
    /\ resp.request.data.state <= stateSeq
    /\ session[resp.request.client].oauth_state = 0

\* The callback of this step presents the state its session holds.
Matched(c) ==
    /\ resp'.request.data.state # 0
    /\ resp'.request.data.state = session[c].oauth_state

\* C8: the anti-forgery state is single use.  A callback that presents the
\* state its session holds leaves the session without a state, whether it
\* logs the user in or fails later; a session only ever receives a state
\* that was never issued before; and a callback that repeats the state of
\* the callback just served in the same session is rejected.
C8_StateSingleUse ==
    [][\A c \in Browsers :
          /\ (CallbackStep(c) /\ Matched(c)) => session'[c].oauth_state = 0
          /\ session'[c].oauth_state \notin {0, session[c].oauth_state}
                => (session'[c].oauth_state > stateSeq /\ stateSeq' = session'[c].oauth_state)
          /\ (/\ CallbackStep(c)
              /\ resp.route = "google_callback"
              /\ resp.request.client = c
              /\ resp'.request.data.state = resp.request.data.state)
             => Rejected(c)]_vars

\* Only one state was ever issued; it logged the browser in, and the
\* callback just served presented it again with a code and was rejected.
C8_Witness ==
    /\ stateSeq = 1
    /\ resp.route = "google_callback"
    /\ resp.request.data = [state |-> 1, code |-> 1]
    /\ session[resp.request.client].user_id # 0
    /\ resp.body.location = "/?auth=error"

(***************************************************************************)
(* Properties of password login, checked under SpecLogin.                  *)
(***************************************************************************)
\* The password of account i is the one given: its stored hash verifies it.
PasswordIs(i, password) ==
    /\ users[i].password_hash # NoHash
    /\ verify_password(password, users[i].password_hash)

\* A stored password hash is written by registration and by a successful
\* password change only, and is then the hash of the password given.
PasswordSetOnlyByRegistrationOrChange ==
    /\ \A i \in DOMAIN users' \ DOMAIN users :
          \/ resp'.route = "google_callback" /\ users'[i].password_hash = NoHash
          \/ /\ resp'.route = "register" /\ resp'.status = 200
             /\ users'[i].password_hash # NoHash
             /\ users'[i].email = resp'.arg
    /\ \A i \in DOMAIN users :
          users'[i].password_hash # users[i].password_hash =>
             /\ resp'.route = "change_password" /\ resp'.status = 200
             /\ resp'.user = i
             /\ users'[i].password_hash =
                    hash_password(resp'.request.data.new_password)

\* The login of this step answers 200 with a session token of user i and
\* makes i the subject of the browser's session.
LoginAccepted(i) ==
    /\ resp'.status = 200
    /\ resp'.body = [user |-> i, token |-> BearerJwt(i, TRUE)]
    /\ create_access_token(i) \in jwts'
    /\ session'[resp'.request.client].user_id = i

\* The login of this step answers the one 401 and touches no session.
LoginRefused ==
    /\ resp'.status = 401
    /\ resp'.body = Detail("Invalid email or password")
    /\ session' = session /\ jwts' = jwts

\* C9 as stated: login is accepted if and only if the email belongs to an
\* account and the password is the account's current one.
C9_LoginIffPassword ==
    [][resp'.route = "login" =>
          LET i == UserByEmail(resp'.request.data.email)
          IN  IF i # 0 /\ PasswordIs(i, resp'.request.data.password)
              THEN LoginAccepted(i) ELSE LoginRefused]_vars

\* C9, amended: login is accepted if and only if the email belongs to an
\* active account whose auth method is local and the password is the one set
\* at registration or by the last successful password change; every other
\* login gets the same 401 and sets no session subject.
C9_LoginIffLocalPassword ==
    [][/\ PasswordSetOnlyByRegistrationOrChange
       /\ resp'.route = "login" =>
             LET i == UserByEmail(resp'.request.data.email)
             IN  IF /\ i # 0
                    /\ users[i].auth_provider = "local" /\ users[i].is_active
                    /\ PasswordIs(i, resp'.request.data.password)
                 THEN LoginAccepted(i) ELSE LoginRefused]_vars

\* A login with the password set by a password change was accepted, and the
\* registration password no longer is the account's.
C9_Witness ==
    /\ resp.route = "login" /\ resp.status = 200
    /\ resp.request.data.password = "Passw0rd2"
    /\ session[resp.request.client].user_id = resp.user

\* A login with the account's password was refused because the account has
\* signed in with Google since.
C9_WitnessGoogle ==
    /\ resp.route = "login" /\ resp.status = 401
    /\ UserByEmail(resp.request.data.email) # 0
    /\ PasswordIs(UserByEmail(resp.request.data.email), resp.request.data.password)

(***************************************************************************)
(* Properties of principal resolution, checked under SpecResolve.          *)
(***************************************************************************)
\* The user the session of the request's client names, 0 when it names none
\* or the id has no row.
SessionSubject(request) ==
    IF session[request.client].user_id \in DOMAIN users
    THEN session[request.client].user_id ELSE 0

\* The user a bearer session token signed by this server names, else 0.
JwtSubject(request) ==
    IF /\ request.authorization.kind = "jwt" /\ request.authorization.ok
       /\ [sub |-> request.authorization.sub, exp |-> request.authorization.exp] \in jwts
       /\ request.authorization.exp >= now
       /\ request.authorization.sub \in DOMAIN users
    THEN request.authorization.sub ELSE 0

\* The active token rows whose secret the request presents as an API token.
PresentedTokens(request) ==
    LET secret == IF request.x_api_token # 0 THEN request.x_api_token
                  ELSE request.authorization.value
    IN  {n \in DOMAIN tokens :
            tokens[n].is_active /\ tokens[n].token_hash = hash_token(secret)}

\* C10: the principal is the session's user when the session resolves,
\* whatever bearer credential the request carries; the bearer session token
\* decides only when the session resolves to nobody; an API token is looked
\* up (and its usage counted) only when neither yielded a user, and only on
\* routes that accept API tokens.
C10_ResolverOrder ==
    [][resp'.route \in {"get_user_profile", "get_tokens"} =>
          LET request == resp'.request
          IN  IF SessionSubject(request) # 0
              THEN resp'.user = SessionSubject(request) /\ tokens' = tokens
              ELSE IF JwtSubject(request) # 0
              THEN resp'.user = JwtSubject(request) /\ tokens' = tokens
              ELSE IF resp'.route = "get_tokens" \/ PresentedTokens(request) = {}
              THEN resp'.user = 0 /\ tokens' = tokens
              ELSE \E n \in PresentedTokens(request) :
                      /\ resp'.user = tokens[n].user_id
                      /\ tokens' = [tokens EXCEPT ![n].usage_count = @ + 1,
                                                  ![n].last_used_at = now]]_vars

\* A request of a logged-in browser carried a valid session token and an
\* active API token of another user and was served as the session's user.
C10_Witness ==
    /\ resp.route = "get_user_profile" /\ resp.status = 200
    /\ resp.user = session[resp.request.client].user_id
    /\ JwtSubject(resp.request) \notin {0, resp.user}
    /\ \E n \in PresentedTokens(resp.request) : tokens[n].user_id # resp.user

(***************************************************************************)
(* Properties of accounts and the active flag, checked under SpecStored.   *)
(***************************************************************************)
\* The request carries nothing but its cookie session.
SessionOnly(request) ==
    request.authorization = NoHeader /\ request.x_api_token = 0

PresentedRows(request) ==
    LET secret == IF request.x_api_token # 0 THEN request.x_api_token
                  ELSE request.authorization.value
    IN  {n \in DOMAIN tokens : tokens[n].token_hash = hash_token(secret)}

RECURSIVE Served(_)
\* The number of successful verifications the workers of W have completed.
Served(W) ==
    IF W = {} THEN 0
    ELSE LET w == CHOOSE x \in W : TRUE
         IN  workers[w].served + Served(W \ {w})

\* C13: the usage counter of the stored token equals the number of
\* successful verifications completed, whatever their interleaving.
C13_NoLostUpdate ==
    \A n \in DOMAIN tokens : tokens[n].usage_count = Served(Workers)

(***************************************************************************)
(* Properties of requests without credentials, checked under SpecAnonymous.*)
(***************************************************************************)
ProtectedRoutes ==
    {"get_tokens", "create_token", "update_token", "delete_token",
     "get_mcp_config", "debug_token_ownership", "get_prompts"}

\* The request carries no session subject and no bearer credential.
Anonymous(request) ==
    SessionOnly(request) /\ session[request.client].user_id = 0

\* C14: the six token routes and the prompt list answer 401 to a request
\* without session subject and bearer credential, and nothing stored
\* (tables, sessions, signed tokens, counters) changes.
C14_AnonymousGets401 ==
    [][(resp'.route \in ProtectedRoutes /\ Anonymous(resp'.request))
       => /\ resp'.status = 401 /\ resp'.user = 0
          /\ UNCHANGED <<users, session, jwts, tokens, tokenSeq, prompts,
                         promptSeq, stateSeq>>]_vars

\* An anonymous request to delete an existing token was refused.
C14_Witness ==
    /\ resp.route = "delete_token" /\ resp.status = 401
    /\ Anonymous(resp.request)
    /\ resp.arg \in DOMAIN tokens

(***************************************************************************)
(* Properties of the routes of email_auth.py that need a principal,        *)
(* checked under SpecStored.                                               *)
(***************************************************************************)
\* C15: change-password and /me answer 401 to a request without session
\* subject and bearer credential.
C15_NoPrincipalGets401 ==
    (resp.route \in {"change_password", "me"} /\ Anonymous(resp.request))
    => resp.status = 401

(***************************************************************************)
(* API tokens on routes that require a principal, checked under            *)
(* SpecResolve.                                                            *)
(***************************************************************************)
\* The active token rows whose secret is the request's Bearer value.
BearerTokens(request) ==
    {n \in DOMAIN tokens :
        /\ request.authorization.kind = "opaque"
        /\ tokens[n].is_active
        /\ tokens[n].token_hash = hash_token(request.authorization.value)}

\* C16: on a route that requires a principal (the token list, the profile),
\* a request without session whose Bearer value is the secret of an active
\* API token is served as that token's owner.
C16_BearerApiTokenAuthenticates ==
    \A n \in BearerTokens(resp.request) :
        (/\ resp.route \in {"get_tokens", "get_user_profile"}
         /\ SessionSubject(resp.request) = 0
         /\ resp.request.x_api_token = 0)
        => (resp.status = 200 /\ resp.user = tokens[n].user_id)

(***************************************************************************)
(* Properties of registration, checked under SpecRegister.                 *)
(***************************************************************************)
\* C17: registering an email that a user row already holds answers 400, adds
\* no row, changes no row, signs no token and leaves every session as it was.
C17_DuplicateEmailRejected ==
    [][(/\ resp'.route = "register"
        /\ \E i \in DOMAIN users : users[i].email = resp'.arg)
       => /\ resp'.status = 400
          /\ resp'.body = Detail("User with this email already exists")
          /\ users' = users /\ session' = session /\ jwts' = jwts]_vars

\* A browser without session subject tried to register an email that was
\* taken, and still has no subject.
C17_Witness ==
    /\ resp.route = "register" /\ resp.status = 400
    /\ \E i \in DOMAIN users : users[i].email = resp.arg
    /\ session[resp.request.client].user_id = 0
    /\ Len(users) = 1

(***************************************************************************)
(* Properties of change-password, checked under SpecLogin.                 *)
(***************************************************************************)
\* The step is a change-password request of an authenticated user whose
\* account is local, has a password hash, and whose current password is the
\* one supplied.
ChangeAccepted ==
    /\ resp'.route = "change_password" /\ resp'.user # 0
    /\ users[resp'.user].auth_provider = "local"
    /\ users[resp'.user].password_hash = hash_password(resp'.request.data.current_password)

\* The step is a change-password request of an authenticated user that is
\* refused with the status the claim gives, the user rows staying as they are.
ChangeRefused ==
    /\ resp'.route = "change_password" /\ resp'.user # 0
    /\ users' = users
    /\ IF \/ users[resp'.user].auth_provider # "local"
          \/ users[resp'.user].password_hash = NoHash
       THEN resp'.status = 400
       ELSE /\ users[resp'.user].password_hash #
                   hash_password(resp'.request.data.current_password)
            /\ resp'.status = 401

\* After the step, login with the account's email and this password succeeds.
LoginWorksAfter(password) ==
    \E i \in DOMAIN users :
        i = resp'.user /\ authenticate_user(users[i].email, password)' = i

\* C18 as stated: after a 200, login succeeds with the new password and fails
\* with the old one.
C18_ChangePassword ==
    [][(resp'.route = "change_password" /\ resp'.user # 0) =>
          \/ ChangeRefused
          \/ /\ ChangeAccepted /\ resp'.status = 200
             /\ \A password \in Passwords :
                   /\ password = resp'.request.data.new_password
                         => LoginWorksAfter(password)
                   /\ password = resp'.request.data.current_password
                         => ~LoginWorksAfter(password)]_vars

\* C18, amended: after a 200, login succeeds with the new password and fails
\* with every other password; the old password fails unless the new one is
\* the same password.
C18_ChangePasswordToNew ==
    [][(resp'.route = "change_password" /\ resp'.user # 0) =>
          \/ ChangeRefused
          \/ /\ ChangeAccepted /\ resp'.status = 200
             /\ \A password \in Passwords :
                   LoginWorksAfter(password) = (password = resp'.request.data.new_password)]_vars

\* The password was changed to a different one, and then a login with the
\* old password was refused.
C18_Witness ==
    /\ resp.route = "login" /\ resp.status = 401
    /\ resp.request.data = [email |-> "a@x.com", password |-> "Passw0rd1"]
    /\ UserByEmail("a@x.com") # 0
    /\ users[UserByEmail("a@x.com")].auth_provider = "local"
    /\ PasswordIs(UserByEmail("a@x.com"), "Passw0rd2")

(***************************************************************************)
(* Properties of session tokens, checked under SpecJwt.                    *)
(***************************************************************************)
\* The token is one create_access_token returned, unaltered.
Genuine(token) ==
    token.kind = "jwt" /\ token.ok /\ \E p \in jwts : p.sub = token.sub /\ p.exp = token.exp

\* C19: a request whose only credential is a session token is served as the
\* token's subject at every hour before the token's expiry (24 hours after
\* it was issued) and refused at every later hour; a token with an altered
\* payload or another signature is refused at any hour; a refusal resolves
\* no user.
C19_TokenValidFor24Hours ==
    [][/\ \A p \in jwts' \ jwts :
             p.sub = resp'.user /\ p.exp = now + JWT_EXPIRATION_HOURS
       /\ (/\ resp'.route = "get_user_profile" /\ now' = now
           /\ resp'.request.authorization.kind = "jwt"
           /\ SessionSubject(resp'.request) = 0)
          => LET token == resp'.request.authorization
                 served == resp'.status = 200 /\ resp'.user = token.sub
                 refused == resp'.status = 401 /\ resp'.user = 0
             IN  /\ served \/ refused
                 /\ (Genuine(token) /\ now < token.exp) => served
                 /\ (Genuine(token) /\ now > token.exp) => refused
                 /\ ~Genuine(token) => refused]_vars

\* The token issued at hour 0 was presented unaltered after 24 hours had
\* passed and was refused.
C19_Witness ==
    /\ resp.route = "get_user_profile" /\ resp.status = 401
    /\ Genuine(resp.request.authorization)
    /\ resp.request.authorization.exp = JWT_EXPIRATION_HOURS
    /\ now > JWT_EXPIRATION_HOURS

(***************************************************************************)
(* Properties of the user a Google sign-in resolves to, checked under      *)
(* SpecLogin.                                                              *)
(***************************************************************************)
\* The users that have external id g or email e before the step.
Known(info) ==
    {i \in DOMAIN users : users[i].google_id = info.sub \/ users[i].email = info.email}

\* The step resolved the profile to the existing user u: no row was added,
\* u now has the profile's external id and the auth method google, and every
\* other row and every other column of u is as before.
ResolvedExisting(info, u) ==
    /\ u \in Known(info)
    /\ users' = [users EXCEPT ![u].google_id = info.sub, ![u].auth_provider = "google"]

\* The step resolved the profile to a new user u: the one row added, active,
\* with the profile's email and external id and the auth method google.
ResolvedNew(info, u) ==
    /\ Known(info) = {}
    /\ u = Len(users) + 1
    /\ Len(users') = Len(users) + 1
    /\ \A i \in DOMAIN users : users'[i] = users[i]
    /\ users'[u].email = info.email /\ users'[u].google_id = info.sub
    /\ users'[u].auth_provider = "google" /\ users'[u].is_active

\* C20: a callback that ends in the success redirect resolved its profile
\* to exactly one user, existing if any user had the profile's external id
\* or email and new otherwise, and that user is the session's subject.
C20_CallbackResolvesOneUser ==
    [][(/\ resp'.route = "google_callback"
        /\ resp'.body.location = "/dashboard?auth=success")
       => \E info \in GoogleProfiles :
             LET u == session'[resp'.request.client].user_id
             IN  /\ resp'.user = u
                 /\ IF Known(info) # {} THEN ResolvedExisting(info, u)
                    ELSE ResolvedNew(info, u)]_vars

\* A Google sign-in resolved to the account registered with a password
\* under the same email, and a second user came from another profile.
C20_Witness ==
    /\ resp.route = "google_callback"
    /\ resp.body.location = "/dashboard?auth=success"
    /\ Len(users) = 2
    /\ users[1].password_hash # NoHash
    /\ users[1].google_id = "g1" /\ users[1].auth_provider = "google"
    /\ session[resp.request.client].user_id = 1

ImportRoutes ==
    {"import_prompts_json", "import_prompts_csv", "import_prompts_md",
     "import_prompts_url", "mcp_import_prompts"}

\* The items the request of this step submitted, in order.
SubmittedItems ==
    LET data == resp'.request.data
    IN  IF resp'.route = "import_prompts_json" THEN data.prompts
        ELSE IF resp'.route = "import_prompts_csv" THEN Tail(data.csv_content)
        ELSE IF resp'.route = "import_prompts_md" THEN data.md_content
        ELSE IF resp'.route = "import_prompts_url"
             THEN IF data.format \in {"json", "csv", "md"} THEN data.document ELSE <<>>
        ELSE IF "prompts" \in DOMAIN data THEN data.prompts ELSE <<>>

\* The items of the request the handler accepts: every item of a JSON
\* import, the items with a title and a content on the other routes.
AcceptedItems ==
    IF resp'.route = "import_prompts_json" THEN SubmittedItems
    ELSE SelectSeq(SubmittedItems, LAMBDA item : item.title # <<>> /\ item.content # "")

\* The user the request of this step is made by: the session's subject, or
\* the owner of the API token it presents.
ImportCaller ==
    LET request == resp'.request
    IN  IF session[request.client].user_id # 0 THEN session[request.client].user_id
        ELSE IF \E id \in DOMAIN tokens : tokens[id].token_hash = hash_token(request.x_api_token)
             THEN tokens[CHOOSE id \in DOMAIN tokens :
                            tokens[id].token_hash = hash_token(request.x_api_token)].user_id
        ELSE 0

\* C22: an import request is all-or-nothing.  When it does not answer 200
\* the prompts table is what it was before the request; when it answers 200
\* the table is what it was plus one new row per accepted item, in order,
\* each with the item's title, content and visibility and the caller as owner.
C22_ImportAllOrNothing ==
    [][resp'.route \in ImportRoutes =>
          IF resp'.status = 200
          THEN /\ ImportCaller # 0
               /\ DOMAIN prompts' =
                     DOMAIN prompts \cup (promptSeq + 1)..(promptSeq + Len(AcceptedItems))
               /\ \A i \in DOMAIN prompts : prompts'[i] = prompts[i]
               /\ \A k \in 1..Len(AcceptedItems) :
                     prompts'[promptSeq + k] =
                        [title |-> AcceptedItems[k].title,
                         content |-> AcceptedItems[k].content,
                         is_public |-> AcceptedItems[k].is_public,
                         user_id |-> ImportCaller]
          ELSE prompts' = prompts]_vars

\* A CSV import whose first row is accepted and whose second row raises was
\* answered with 500 and stored nothing, after an import that stored a row.
C22_Witness ==
    /\ resp.route = "import_prompts_csv"
    /\ resp.status = 500
    /\ "csv_content" \in DOMAIN resp.request.data
    /\ Len(resp.request.data.csv_content) = 3
    /\ ~Skipped(resp.request.data.csv_content[2])
    /\ ~Raises(resp.request.data.csv_content[2])
    /\ Raises(resp.request.data.csv_content[3])
    /\ DOMAIN prompts = {1}
    /\ prompts[1].user_id = resp.user

(***************************************************************************)
(* Properties of concurrent prompt changes, checked under SpecRace.        *)
(***************************************************************************)
\* C23: a prompt that is private when a change is committed is changed or
\* deleted by its owner only: no update or delete of another user, an
\* administrator included, takes effect on it, whatever was interleaved
\* between that user's authorization check and the write.
C23_PrivateChangedByOwnerOnly ==
    [][\A id \in DOMAIN prompts :
          (/\ ~prompts[id].is_public
           /\ (id \notin DOMAIN prompts' \/ prompts'[id] # prompts[id]))
          => resp'.user = prompts[id].user_id]_vars

(***************************************************************************)
(* Properties of concurrent sign-ups, checked under SpecSignup.            *)
(***************************************************************************)
\* No two user rows share an email, and no two share a Google id.
UniqueIdentities ==
    \A i, j \in DOMAIN users :
        i # j => /\ users[i].email # users[j].email
                 /\ users[i].google_id = "none" \/ users[i].google_id # users[j].google_id

\* Worker w holds a sign-up whose row would now collide with a stored row:
\* it made its check before another request stored that row.
LostRace(w) ==
    \/ /\ workers[w].pc = "checked"
       /\ \E i \in DOMAIN users : users[i].email = workers[w].email
    \/ /\ workers[w].pc = "queried" /\ workers[w].existing_user = 0
       /\ \E i \in DOMAIN users : \/ users[i].email = workers[w].info.email
                                  \/ users[i].google_id = workers[w].info.sub

\* C24: in every reachable state no two user rows share an email or a
\* Google id; and when a worker that lost the check-then-insert race
\* finishes, the request fails (500 for a registration, the error redirect
\* for a callback) and the users table, the sessions' subjects and the
\* signed tokens are what they were.
C24_IdentitiesStayUnique ==
    /\ []UniqueIdentities
    /\ [][\A w \in Workers :
             (LostRace(w) /\ workers'[w] = Idle)
             => /\ users' = users /\ jwts' = jwts
                /\ \A c \in Clients : session'[c].user_id = session[c].user_id
                /\ \/ resp'.route = "register" /\ resp'.status = 500
                   \/ resp'.route = "google_callback"
                         /\ resp'.body.location = "/?auth=error"]_vars

\* A registration that passed its check was answered 500 because the email
\* had been stored meanwhile by a Google sign-in; one row holds the email.
C24_Witness ==
    /\ resp.route = "register" /\ resp.status = 500
    /\ Len(users) = 1
    /\ users[1].email = resp.arg
    /\ users[1].auth_provider = "google"
    /\ session[resp.request.client].user_id = 0

(***************************************************************************)
(* Ownership of created prompts, checked under SpecRead.                   *)
(***************************************************************************)
\* C25: POST /api/prompts stores a prompt only for a request that
\* authenticates as a user, and the stored owner is that user.
C25_CreatedPromptOwnedByCaller ==
    [][(resp'.route = "create_prompt" /\ DOMAIN prompts' # DOMAIN prompts)
       => /\ get_current_user_or_token(resp'.request).user # 0
          /\ \A id \in DOMAIN prompts' \ DOMAIN prompts :
                prompts'[id].user_id = get_current_user_or_token(resp'.request).user]_vars

(***************************************************************************)
(* Accounts that signed in with Google, checked under SpecLogin.           *)
(***************************************************************************)
\* Account i was registered with a password and has since completed a
\* Google sign-in: its auth method is google and its hash is still stored.
Linked(i) == users[i].auth_provider = "google" /\ users[i].password_hash # NoHash

\* C26: a password login is accepted only for an active account whose auth
\* method is local.  A Google sign-in that resolves to an account with a
\* password makes its auth method google and keeps its hash; such an
\* account stays so in every later state, each password login with its
\* email is answered 401 and sets no session subject, and each
\* change-password request made as this account is answered 400 and changes
\* no user row.
C26_GoogleLinkEndsPasswordLogin ==
    [][/\ \A i \in DOMAIN users :
             /\ Linked(i) => Linked(i)'
             /\ (/\ resp'.route = "google_callback"
                 /\ resp'.body.location = "/dashboard?auth=success"
                 /\ resp'.user = i /\ users[i].password_hash # NoHash)
                => (Linked(i)' /\ users'[i].password_hash = users[i].password_hash)
       /\ (resp'.route = "login" /\ resp'.status = 200)
             => /\ users[resp'.user].auth_provider = "local"
                /\ users[resp'.user].is_active
       /\ (/\ resp'.route = "login"
           /\ \E i \in DOMAIN users :
                 users[i].email = resp'.request.data.email /\ Linked(i))
             => (resp'.status = 401 /\ session' = session)
       /\ (/\ resp'.route = "change_password"
           /\ \E i \in DOMAIN users : i = resp'.user /\ Linked(i))
             => (resp'.status = 400 /\ users' = users)]_vars

\* The account registered with a password has signed in with Google, and
\* its change-password request with the password it registered with was
\* answered 400.
C26_Witness ==
    /\ resp.route = "change_password" /\ resp.status = 400
    /\ resp.user # 0
    /\ Linked(resp.user)
    /\ PasswordIs(resp.user, resp.request.data.current_password)

(***************************************************************************)
(* Domain errors of the import and admin handlers, checked under           *)
(* SpecImport.                                                             *)
(***************************************************************************)
\* C27: a domain error keeps its own status.  A CSV import by an
\* authenticated user with no CSV content is answered 400, an MCP import by
\* an authenticated user with an import type other than json is answered
\* 400, and set-admin-user is answered 404 when no user has the email.
C27_DomainErrorKeepsStatus ==
    /\ (/\ resp.route = "import_prompts_csv" /\ resp.user # 0
        /\ ("csv_content" \notin DOMAIN resp.request.data
               \/ resp.request.data.csv_content = <<>>))
          => resp.status = 400
    /\ (/\ resp.route = "mcp_import_prompts" /\ resp.user # 0
        /\ "type" \in DOMAIN resp.request.data
        /\ resp.request.data.type # "json")
          => resp.status = 400
    /\ (resp.route = "set_admin_user" /\ UserByEmail("isky999@gmail.com") = 0)
          => resp.status = 404

FailedAttempts == {k \in DOMAIN conn.log : conn.log[k] = "OperationalError"}

\* What holds of a call of connect_with_retry at every moment.
RetryShape ==
    /\ Len(conn.log) <= conn.retries
    /\ \A k \in DOMAIN conn.log : k < Len(conn.log) => conn.log[k] = "OperationalError"
    /\ Len(conn.waits) \in {Len(conn.log) - 1, Len(conn.log)}
    /\ Len(conn.waits) <= conn.retries - 1
    /\ \A k \in DOMAIN conn.waits :
          /\ conn.waits[k] <= MaxDelay
          /\ k = 1 => conn.waits[k] = conn.delay0
          /\ k > 1 => \/ 2 * conn.waits[k] = 3 * conn.waits[k - 1]
                      \/ conn.waits[k] = MaxDelay /\ 3 * conn.waits[k - 1] >= 2 * MaxDelay
    /\ conn.pc = "returned" =>
          /\ conn.log[Len(conn.log)] = "ok"
          /\ Len(conn.waits) = Len(conn.log) - 1
    /\ conn.pc = "raised" =>
          /\ conn.log[Len(conn.log)] # "ok"
          /\ Len(conn.waits) = Len(conn.log) - 1
    /\ conn.pc \in {"attempt", "sleep"} => Len(conn.log) < conn.retries
    /\ (conn.retries = DefaultRetries /\ conn.delay0 = DefaultDelay)
          => \A k \in DOMAIN conn.waits : conn.waits[k] = <<2000, 3000, 4500, 6750>>[k]

\* C29: the retry terminates, by returning or by raising.  It makes at
\* most retries attempts, 5 by default; an attempt follows only attempts
\* that failed, so the call returns at its first success; there is one wait
\* between two consecutive attempts and none after the last; the first
\* wait is the initial delay, 2 seconds by default, each later one is 1.5
\* times the one before, or 10 seconds when that would be more; and when
\* every one of the retries attempts has failed the call has raised.
C29_RetryTerminates ==
    /\ <>(conn.pc \in {"returned", "raised"})
    /\ []RetryShape
    /\ []((Cardinality(FailedAttempts) = conn.retries) => conn.pc = "raised")

\* The default call failed five times and raised, after waits of 2, 3, 4.5
\* and 6.75 seconds.
C29_Witness ==
    /\ conn.pc = "raised"
    /\ conn.retries = DefaultRetries /\ conn.delay0 = DefaultDelay
    /\ Len(conn.log) = 5
    /\ conn.waits = <<2000, 3000, 4500, 6750>>


(***************************************************************************)
(* Properties of error responses, checked under SpecImport.                *)
(***************************************************************************)
\* C30: a 500 response carries a fixed detail and no text of the exception
\* that caused it.
C30_FailureBodyIsGeneric ==
    resp.status = 500 => "exception" \notin DOMAIN resp.body

====
